---------------------------- MODULE Spec2Model ----------------------------
(***************************************************************************)
(* A model of BotLi's per-game move decision (src/lichess_game.py, class   *)
(* Lichess_Game): the fallback chain of make_move, its source adapters,    *)
(* the tablebase selectors, the outcome classifier, the draw/resign        *)
(* evaluator, the clock debit, update, the constructor, and the two        *)
(* pondering methods.                                                      *)
(*                                                                         *)
(* The chess library, the remote services, the books, the tablebases and   *)
(* the engine are outside the repository.  Their answers are inputs of the *)
(* actions, drawn from small sets; the board is an abstract game in which  *)
(* a position is identified by a key computed from the move stack.         *)
(***************************************************************************)
EXTENDS Integers, Sequences, FiniteSets, TLC

VARIABLES
    game,    \* the Lichess_Game object: its fields
    out,     \* what the last method called gave its caller, and the
             \* searches it started
    calls,   \* the external queries issued by the last make_move, in order,
             \* or the event given to the last update; empty after a
             \* pondering method
    fn       \* input and result of the pure function applied last

vars == <<game, out, calls, fn>>

-----------------------------------------------------------------------------
(* Bounds of the model *)

\* make_move and update are not taken once the move stack has this length
MaxPly == 4
\* distances d range over -MaxDist..MaxDist in the classifier's specification
MaxDist == 102
\* halfmove clocks h range over 0..MaxClock in the classifier's specification
MaxClock == 101
\* the largest number of legal moves a tablebase selector scans
MaxLegal == 3
\* the plies of a long game
MaxGame == 21
\* the plies and the engine scores of a session the draw/resign evaluator sees
MaxSignalPly == 8
MaxScores == 3
\* initial clocks range over 0..MaxInitial times five seconds
MaxInitial == 120
\* the plies played before a remote adapter is run on its own
MaxGatePly == 3

\* Python's None, and "no value" in general
None == [kind |-> "none"]

Max(a, b) == IF a >= b THEN a ELSE b

-----------------------------------------------------------------------------
(* Outcome classifier *)

\* the classifier with the boundary of the winning side off by one
_value_to_wdl_strict(value, halfmove_clock) ==
    IF value > 0
    THEN IF value + halfmove_clock < 100 THEN 2 ELSE 1
    ELSE IF value < 0
         THEN IF value - halfmove_clock >= -100 THEN -2 ELSE -1
         ELSE 0

\* the classifier with the clock added on the losing side too
_value_to_wdl_lopsided(value, halfmove_clock) ==
    IF value > 0
    THEN IF value + halfmove_clock <= 100 THEN 2 ELSE 1
    ELSE IF value < 0
         THEN IF value + halfmove_clock >= -100 THEN -2 ELSE -1
         ELSE 0

\* lines 522-534

_value_to_wdl(value, halfmove_clock) ==
    IF value > 0
    THEN IF value + halfmove_clock <= 100 THEN 2 ELSE 1
    ELSE IF value < 0
         THEN IF value - halfmove_clock >= -100 THEN -2 ELSE -1
         ELSE 0

-----------------------------------------------------------------------------
(* Tablebase selectors: the scan over the legal moves.                     *)
(* A probe is what the library reports for one legal move, in enumeration  *)
(* order: the move, whether the position after it is checkmate, whether    *)
(* the table for it is missing, the probed value (from the point of view   *)
(* of the side to move after the move) and the halfmove clock after it.    *)

Probe(m, mate, missing, value, hmc) ==
    [move |-> m, checkmate |-> mate, missing |-> missing,
     value |-> value, halfmove_clock |-> hmc]

\* lines 417-419 / 470-473: the best-so-far record before the loop
GaviotaStart == [best_moves |-> <<>>, best_wdl |-> -2, best_dtm |-> 1000000,
                 aborted |-> FALSE]

\* the loop body that lets a tie replace the best moves
GaviotaKeep_replacing(best, move, wdl, dtm) ==
    IF best.best_moves # <<>>
    THEN IF wdl > best.best_wdl
         THEN [best EXCEPT !.best_moves = <<move>>, !.best_wdl = wdl, !.best_dtm = dtm]
         ELSE IF wdl = best.best_wdl /\ dtm <= best.best_dtm
              THEN [best EXCEPT !.best_moves = <<move>>, !.best_dtm = dtm]
              ELSE best
    ELSE [best EXCEPT !.best_moves = <<move>>, !.best_wdl = wdl, !.best_dtm = dtm]

\* lines 434-448: one turn of the loop body after wdl and dtm are known
GaviotaKeep(best, move, wdl, dtm) ==
    IF best.best_moves # <<>>
    THEN IF wdl > best.best_wdl
         THEN [best EXCEPT !.best_moves = <<move>>, !.best_wdl = wdl, !.best_dtm = dtm]
         ELSE IF wdl = best.best_wdl
              THEN IF dtm < best.best_dtm
                   THEN [best EXCEPT !.best_moves = <<move>>, !.best_dtm = dtm]
                   ELSE IF dtm = best.best_dtm
                        THEN [best EXCEPT !.best_moves = Append(@, move)]
                        ELSE best
              ELSE best
    ELSE [best EXCEPT !.best_moves = <<move>>, !.best_wdl = wdl, !.best_dtm = dtm]

\* the scan that passes over a move whose table is missing
RECURSIVE GaviotaScan_skipping(_, _, _)
GaviotaScan_skipping(probes, i, best) ==
    IF i > Len(probes) THEN best
    ELSE LET p == probes[i] IN
         IF p.checkmate
         THEN GaviotaScan_skipping(probes, i + 1, GaviotaKeep(best, p.move, 2, 0))
         ELSE IF p.missing
              THEN GaviotaScan_skipping(probes, i + 1, best)
              ELSE LET dtm == -p.value
                       wdl == _value_to_wdl(dtm, p.halfmove_clock)
                   IN GaviotaScan_skipping(probes, i + 1,
                                           GaviotaKeep(best, p.move, wdl, dtm))

\* lines 420-448: the loop from the i-th legal move on
RECURSIVE GaviotaScan(_, _, _)
GaviotaScan(probes, i, best) ==
    IF i > Len(probes) THEN best
    ELSE LET p == probes[i] IN
         IF p.checkmate
         THEN GaviotaScan(probes, i + 1, GaviotaKeep(best, p.move, 2, 0))
         ELSE IF p.missing
              THEN [best EXCEPT !.aborted = TRUE]
              ELSE LET dtm == -p.value
                       wdl == _value_to_wdl(dtm, p.halfmove_clock)
                   IN GaviotaScan(probes, i + 1, GaviotaKeep(best, p.move, wdl, dtm))

SyzygyStart == [best_moves |-> <<>>, best_wdl |-> -2, best_dtz |-> 1000000,
                best_real_dtz |-> 1000000, aborted |-> FALSE]

\* the bias applied whatever the halfmove clock
SyzygyBias_always(dtz, wdl, halfmove_clock) ==
    IF wdl < 0 THEN dtz + 10000
    ELSE IF wdl > 0 THEN dtz - 10000 ELSE dtz

\* lines 485-490: the comparison distance of a move
SyzygyBias(dtz, wdl, halfmove_clock) ==
    IF halfmove_clock = 0
    THEN IF wdl < 0 THEN dtz + 10000
         ELSE IF wdl > 0 THEN dtz - 10000 ELSE dtz
    ELSE dtz

\* lines 492-509
SyzygyKeep(best, move, wdl, dtz, real_dtz) ==
    IF best.best_moves # <<>>
    THEN IF wdl > best.best_wdl
         THEN [best EXCEPT !.best_moves = <<move>>, !.best_wdl = wdl,
                           !.best_dtz = dtz, !.best_real_dtz = real_dtz]
         ELSE IF wdl = best.best_wdl
              THEN IF dtz < best.best_dtz
                   THEN [best EXCEPT !.best_moves = <<move>>,
                                     !.best_dtz = dtz, !.best_real_dtz = real_dtz]
                   ELSE IF dtz = best.best_dtz
                        THEN [best EXCEPT !.best_moves = Append(@, move)]
                        ELSE best
              ELSE best
    ELSE [best EXCEPT !.best_moves = <<move>>, !.best_wdl = wdl,
                      !.best_dtz = dtz, !.best_real_dtz = real_dtz]

RECURSIVE SyzygyScan(_, _, _)
SyzygyScan(probes, i, best) ==
    IF i > Len(probes) THEN best
    ELSE LET p == probes[i] IN
         IF p.missing
         THEN [best EXCEPT !.aborted = TRUE]
         ELSE LET real_dtz == -p.value
                  wdl == _value_to_wdl(real_dtz, p.halfmove_clock)
                  dtz == SyzygyBias(real_dtz, wdl, p.halfmove_clock)
              IN SyzygyScan(probes, i + 1, SyzygyKeep(best, p.move, wdl, dtz, real_dtz))

-----------------------------------------------------------------------------
(* The board: an abstract game.  A move is a number, every move is legal   *)
(* in every position, and the position reached by a move stack is the sum  *)
(* of its moves modulo the number of positions, so that positions recur.   *)

Moves == {1, 2}
Keys == {0, 1, 2}

RECURSIVE Sum(_)
Sum(s) == IF s = <<>> THEN 0 ELSE s[1] + Sum(Tail(s))

\* the identity of the position a move stack leads to
Key(move_stack) == Sum(move_stack) % Cardinality(Keys)

\* board.push(move): the move number grows after a move of Black
Push(board, move) ==
    [board EXCEPT !.move_stack = Append(@, move),
                  !.turn = ~@,
                  !.fullmove_number = IF board.turn THEN @ ELSE @ + 1]

\* board.turn: TRUE when White is to move
Turn(board) == board.turn

\* board.fullmove_number
FullmoveNumber(board) == board.fullmove_number

\* board.ply(): the half-moves since move 1 of the game, which are more
\* than the move stack holds when the board was set up from a position
Ply(board) == 2 * (board.fullmove_number - 1) + (IF board.turn THEN 0 ELSE 1)

\* board.is_repetition(count): the current position has occurred count times
IsRepetition(board, count) ==
    LET s == board.move_stack
        same == {i \in 0..Len(s) : Key(SubSeq(s, 1, i)) = Key(s)}
    IN Cardinality(same) >= count

\* board.legal_moves, in the library's enumeration order
LegalMoves(board) == <<1, 2>>

-----------------------------------------------------------------------------
(* Configuration (config.yml) and the gameFull event a game is built from  *)

\* dict.get('max_depth', float('inf'))
Infinity == 1000 * 1000

BookEntry(m, w) == [move |-> m, weight |-> w]

\* a polyglot reader: the entries it holds for each position
BookA == [k \in Keys |-> IF k = 0 THEN <<BookEntry(1, 1), BookEntry(2, 3)>>
                         ELSE IF k = 1 THEN <<BookEntry(2, 5)>> ELSE <<>>]
BookB == [k \in Keys |-> IF k = 1 THEN <<BookEntry(1, 2)>> ELSE <<>>]

\* one entry of the books dictionary: a key and the books listed under it
Books(key, books) == [key |-> key, books |-> books]

Online(enabled, max_depth, min_time, timeout) ==
    [enabled |-> enabled, max_depth |-> max_depth, min_time |-> min_time,
     timeout |-> timeout]

ConfigBase ==
    [move_overhead_multiplier |-> [num |-> 1, den |-> 1],
     engine |->
       [ponder |-> TRUE,
        variants |-> [enabled |-> FALSE, ponder |-> FALSE],
        opening_books |-> [enabled |-> FALSE, max_depth |-> Infinity,
                           selection |-> "best_move", books |-> <<>>],
        online_moves |->
          [opening_explorer |-> [enabled |-> FALSE, max_depth |-> Infinity,
                                 min_time |-> 1, timeout |-> 1,
                                 use_for_variants |-> FALSE, min_games |-> 2,
                                 only_with_wins |-> TRUE,
                                 selection |-> "performance"],
           lichess_cloud |-> [enabled |-> FALSE, max_depth |-> Infinity,
                              min_time |-> 1, timeout |-> 2,
                              only_without_book |-> FALSE,
                              min_eval_depth |-> 20],
           chessdb |-> [enabled |-> FALSE, max_depth |-> Infinity,
                        min_time |-> 1, timeout |-> 1, min_eval_depth |-> 10],
           online_egtb |-> [enabled |-> FALSE, min_time |-> 1, timeout |-> 3]],
        gaviota |-> [enabled |-> FALSE, max_pieces |-> 5],
        syzygy |-> [enabled |-> FALSE, instant_play |-> TRUE, max_pieces |-> 6],
        offer_draw |-> [enabled |-> TRUE, min_game_length |-> 2,
                        consecutive_moves |-> 2, score |-> 50],
        resign |-> [enabled |-> TRUE, consecutive_moves |-> 2, score |-> -500]]]

\* every source enabled, the book and the online sources for the first ply
\* only; the draw offer switched off
ConfigAll ==
    [ConfigBase EXCEPT
       !.engine.opening_books.enabled = TRUE,
       !.engine.opening_books.books = <<Books("standard", <<BookB>>)>>,
       !.engine.opening_books.max_depth = 2,
       !.engine.online_moves.opening_explorer.enabled = TRUE,
       !.engine.online_moves.opening_explorer.max_depth = 1,
       !.engine.online_moves.lichess_cloud.max_depth = 1,
       !.engine.online_moves.chessdb.max_depth = 1,
       !.engine.online_moves.lichess_cloud.enabled = TRUE,
       !.engine.online_moves.chessdb.enabled = TRUE,
       !.engine.online_moves.online_egtb.enabled = TRUE,
       !.engine.gaviota.enabled = TRUE,
       !.engine.gaviota.max_pieces = 8,
       !.engine.syzygy.enabled = TRUE,
       !.engine.syzygy.max_pieces = 8,
       !.engine.offer_draw.enabled = FALSE]

\* the three tablebase sources and the engine; resignation switched off
ConfigTablebase ==
    [ConfigBase EXCEPT
       !.engine.online_moves.online_egtb.enabled = TRUE,
       !.engine.gaviota.enabled = TRUE,
       !.engine.syzygy.enabled = TRUE,
       !.engine.resign.enabled = FALSE]

\* the book (random selection), the explorer (by win rate) and the engine
ConfigOpening ==
    [ConfigBase EXCEPT
       !.engine.opening_books.enabled = TRUE,
       !.engine.opening_books.books = <<Books("white", <<BookB>>),
                                        Books("black", <<BookA, BookB>>)>>,
       !.engine.opening_books.selection = "uniform_random",
       !.engine.online_moves.opening_explorer.enabled = TRUE,
       !.engine.online_moves.opening_explorer.selection = "win_rate",
       !.engine.online_moves.opening_explorer.only_with_wins = FALSE,
       !.move_overhead_multiplier = [num |-> 3, den |-> 2]]

\* the cloud evaluation, ChessDB and the engine
ConfigOnline ==
    [ConfigBase EXCEPT
       !.engine.online_moves.lichess_cloud.enabled = TRUE,
       !.engine.online_moves.chessdb.enabled = TRUE,
       !.engine.ponder = FALSE]

\* the engine alone
ConfigEngine == ConfigBase

\* the variants of the model: the key and the name of each in a gameFull
\* event
Variants ==
    [standard |-> [key |-> "standard", name |-> "Standard"],
     chess960 |-> [key |-> "chess960", name |-> "Chess960"],
     fromPosition |-> [key |-> "fromPosition", name |-> "From Position"],
     atomic |-> [key |-> "atomic", name |-> "Atomic"],
     antichess |-> [key |-> "antichess", name |-> "Antichess"]]

\* what the board reads of a FEN: the number of men placed, the side to
\* move (TRUE for White) and the move number
Fen(pieces, turn, fullmove_number) ==
    [pieces |-> pieces, turn |-> turn, fullmove_number |-> fullmove_number]

\* what the constructor reads of the gameFull event: the side of the bot
\* (line 26), the variant, the initial position (read for Chess960 and
\* From Position only), the clock, and the state with the moves played so
\* far
GameFull(is_white, variant, initialFen, moves, wtime, btime) ==
    [is_white |-> is_white, variant |-> variant,
     initialFen |-> initialFen,
     clock |-> [initial |-> 180000, increment |-> 0],
     state |-> [moves |-> moves, wtime |-> wtime, btime |-> btime,
                status |-> "started"]]

\* the games of the model: a configuration and the event the game starts
\* from.  The first two are games from a position of 8 and of 5 men, which
\* the tablebases serve; the next three are games of standard chess from
\* its start position of 32 men; the sixth is a game from a position with
\* Black to move at move 60, joined after two plies; the seventh an Atomic
\* game for which the variants engine is configured, without pondering.
Scenarios ==
    {<<ConfigAll,
       GameFull(TRUE, Variants.fromPosition, Fen(8, TRUE, 1), <<>>, 3000, 2000)>>,
     <<ConfigTablebase,
       GameFull(FALSE, Variants.fromPosition, Fen(5, TRUE, 1), <<>>, 3000, 2000)>>,
     <<ConfigOpening,
       GameFull(FALSE, Variants.standard, Fen(32, TRUE, 1), <<>>, 3000, 2000)>>,
     <<ConfigOnline,
       GameFull(TRUE, Variants.standard, Fen(32, TRUE, 1), <<>>, 3000, 2000)>>,
     <<ConfigEngine,
       GameFull(TRUE, Variants.standard, Fen(32, TRUE, 1), <<>>, 3000, 2000)>>,
     <<ConfigEngine,
       GameFull(FALSE, Variants.fromPosition, Fen(3, FALSE, 60), <<1, 2>>,
                3000, 2000)>>,
     <<[ConfigEngine EXCEPT !.engine.variants = [enabled |-> TRUE,
                                                 ponder |-> FALSE]],
       GameFull(TRUE, Variants.atomic, Fen(32, TRUE, 1), <<>>, 3000, 2000)>>}

\* the overhead rounded up to the next millisecond
_get_move_overhead_ceiling(config, initial_time) ==
    LET multiplier == config.move_overhead_multiplier
    IN Max((initial_time * multiplier.num + 60 * multiplier.den - 1)
               \div (60 * multiplier.den), 1000)

-----------------------------------------------------------------------------
(* The double-precision arithmetic of line 752, on positive numbers.  A    *)
(* double is a mantissa of 53 bits and a binary exponent; the mantissa is  *)
(* held in limbs of 14 bits, the least significant first, so that no       *)
(* intermediate value leaves 32 bits.  Division and multiplication round   *)
(* to nearest, ties to even.                                               *)

Base == 128 * 128

\* the i-th limb of a number, 0 beyond its length
Limb(a, i) == IF i <= Len(a) THEN a[i] ELSE 0

\* a whole number below 2^31 as limbs
BigOfInt(n) == <<n % Base, (n \div Base) % Base, n \div (Base * Base)>>

\* limbs below 2^31 as a whole number
BigToInt(a) == Limb(a, 1) + Base * Limb(a, 2) + Base * Base * Limb(a, 3)

\* column sums with their carries propagated
RECURSIVE BigCarry(_, _)
BigCarry(columns, carry) ==
    IF columns = <<>> THEN <<>>
    ELSE <<(columns[1] + carry) % Base>>
             \o BigCarry(Tail(columns), (columns[1] + carry) \div Base)

RECURSIVE ColumnSum(_, _, _, _)
ColumnSum(a, b, k, i) ==
    IF i > Len(a) THEN 0
    ELSE (IF k + 1 - i \in 1..Len(b) THEN a[i] * b[k + 1 - i] ELSE 0)
             + ColumnSum(a, b, k, i + 1)

\* a x b, for numbers of up to four limbs
BigMul(a, b) ==
    BigCarry([k \in 1..(Len(a) + Len(b)) |-> ColumnSum(a, b, k, 1)], 0)

\* the limbs from the i-th up, modulo d; d is below 2^17
RECURSIVE BigMod(_, _, _)
BigMod(a, d, i) ==
    IF i > Len(a) THEN 0 ELSE (BigMod(a, d, i + 1) * Base + a[i]) % d

\* a divided by d, rounded down
BigDiv(a, d) ==
    [i \in 1..Len(a) |-> (BigMod(a, d, i + 1) * Base + a[i]) \div d]

\* a x 2^s
BigShiftLeft(a, s) ==
    [i \in 1..(s \div 14) |-> 0]
        \o BigCarry([i \in 1..(Len(a) + 1) |-> Limb(a, i) * 2 ^ (s % 14)], 0)

\* a divided by 2^s, rounded down, and whether bits were lost
BigShiftRight(a, s) ==
    LET kept == SubSeq(a, s \div 14 + 1, Len(a))
    IN [q |-> BigDiv(kept, 2 ^ (s % 14)),
        sticky |-> \/ \E i \in 1..(s \div 14) : Limb(a, i) # 0
                   \/ BigMod(kept, 2 ^ (s % 14), 1) # 0]

\* a >= 2^n
BigAtLeastPow2(a, n) ==
    \/ \E i \in (n \div 14 + 2)..Len(a) : a[i] # 0
    \/ Limb(a, n \div 14 + 1) >= 2 ^ (n % 14)

\* a mantissa that rounding carried to 2^53 brought back to 53 bits
Double(m, e) ==
    IF BigAtLeastPow2(m, 53)
    THEN [m |-> SubSeq(BigDiv(m, 2), 1, 4), e |-> e + 1]
    ELSE [m |-> SubSeq(m, 1, 4), e |-> e]

\* the quotient rounded to nearest, ties to even: up is whether the part
\* cut off is above a half, tie whether it is a half
RoundNearestEven(q, up, tie) ==
    IF up \/ (tie /\ q[1] % 2 = 1) THEN BigCarry(Append(q, 0), 1) ELSE q

\* k with 2^k <= a / b < 2^(k + 1), for whole numbers a, b > 0
RECURSIVE FloorLog2(_, _, _)
FloorLog2(a, b, k) ==
    IF a >= b
    THEN IF a \div 2 >= b THEN FloorLog2(a \div 2, b, k + 1) ELSE k
    ELSE FloorLog2(2 * a, b, k - 1)

\* the only element of a set of one element
The(S) == CHOOSE x \in S : TRUE

\* a / b rounded to 53 bits, for 2^k <= a / b < 2^(k + 1)
DoubleQuotient(a, b, k) ==
    The({Double(RoundNearestEven(BigDiv(n, b), 2 * BigMod(n, b, 1) > b,
                                 2 * BigMod(n, b, 1) = b), k - 52) :
            n \in {BigShiftLeft(BigOfInt(a), 52 - k)}})

\* a / b in double precision, for whole numbers 0 < a < 2^31, 0 < b < 2^16
DoubleDiv(a, b) == The({DoubleQuotient(a, b, k) : k \in {FloorLog2(a, b, 0)}})

\* p x 2^e rounded to 53 bits, for 2^(s + 52) <= p < 2^(s + 53)
DoubleRound(p, s, e) ==
    The({Double(RoundNearestEven(BigDiv(cut.q, 2),
                                 cut.q[1] % 2 = 1 /\ cut.sticky,
                                 cut.q[1] % 2 = 1 /\ ~cut.sticky), e + s) :
            cut \in {BigShiftRight(p, s - 1)}})

\* x * y in double precision
DoubleMul(x, y) ==
    The({DoubleRound(p, IF BigAtLeastPow2(p, 105) THEN 53 ELSE 52, x.e + y.e) :
            p \in {BigMul(x.m, y.m)}})

\* int(x), for a double below 2^31
DoubleInt(x) ==
    IF x.e >= 0 THEN BigToInt(BigShiftLeft(x.m, x.e))
    ELSE IF -x.e > 53 THEN 0
         ELSE BigToInt(BigShiftRight(x.m, -x.e).q)

\* lines 751-753: the quotient and the product are doubles, int() cuts the
\* fraction of the product off; the multiplier is the double nearest to
\* num / den
_get_move_overhead(config, initial_time) ==
    LET multiplier == config.move_overhead_multiplier
    IN IF initial_time <= 0 \/ multiplier.num <= 0 THEN 1000
       ELSE The({Max(DoubleInt(product), 1000) :
                    product \in {DoubleMul(x, y) :
                        x \in {DoubleDiv(initial_time, 60)},
                        y \in {DoubleDiv(multiplier.num, multiplier.den)}}})

-----------------------------------------------------------------------------
(* The constructor *)

\* find_variant(name).uci_variant, for the variants of the model
UciVariant(name) ==
    CASE name = "Atomic" -> "atomic"
      [] name = "Antichess" -> "antichess"
      [] OTHER -> "chess"

\* board.aliases: the names the library knows a variant by
Aliases(board) ==
    CASE board.uci_variant = "atomic" -> <<"Atomic", "Atom", "Atomic chess">>
      [] board.uci_variant = "antichess" -> <<"Antichess", "Anti chess", "Anti">>
      [] OTHER -> <<"Standard", "Chess", "Classical", "Normal", "Illegal",
                    "From Position">>

\* str.lower(), on the names and keys of the model
Lower(text) ==
    CASE text = "Atomic" -> "atomic"
      [] text = "Atom" -> "atom"
      [] text = "Atomic chess" -> "atomic chess"
      [] text = "Antichess" -> "antichess"
      [] text = "Anti chess" -> "anti chess"
      [] text = "Anti" -> "anti"
      [] text = "Standard" -> "standard"
      [] text = "Chess" -> "chess"
      [] text = "Classical" -> "classical"
      [] text = "Normal" -> "normal"
      [] text = "Illegal" -> "illegal"
      [] text = "From Position" -> "from position"
      [] OTHER -> text

\* lines 746-747: the moves of the event pushed one by one
RECURSIVE Replay(_, _)
Replay(board, moves) ==
    IF moves = <<>> THEN board ELSE Replay(Push(board, moves[1]), Tail(moves))

\* lines 737-749: the board starts from the initial position of the event
\* in a Chess960 and in a From Position game, and from the start position
\* of the variant (32 men, White to move, move 1) in every other, whatever
\* the initial position of the event
_setup_board(gameFull_event) ==
    LET variant == gameFull_event.variant
        from_fen == variant.key = "chess960" \/ variant.name = "From Position"
        board == [move_stack |-> <<>>,
                  pieces |-> IF from_fen THEN gameFull_event.initialFen.pieces
                             ELSE 32,
                  chess960 |-> variant.key = "chess960",
                  uci_variant |-> IF from_fen THEN "chess"
                                  ELSE UciVariant(variant.name),
                  turn |-> IF from_fen THEN gameFull_event.initialFen.turn
                           ELSE TRUE,
                  fullmove_number |->
                      IF from_fen THEN gameFull_event.initialFen.fullmove_number
                      ELSE 1]
    IN Replay(board, gameFull_event.state.moves)

\* books[key], for a key of the dictionary
BooksOf(books, key) ==
    books[CHOOSE i \in 1..Len(books) : books[i].key = key].books

\* key in books
HasKey(books, key) == \E i \in 1..Len(books) : books[i].key = key

\* lines 265-270: the books of the first key that names the variant
RECURSIVE VariantBooks(_, _, _)
VariantBooks(books, i, board) ==
    IF i > Len(books) THEN <<>>
    ELSE IF \E j \in 1..Len(Aliases(board)) :
                Lower(books[i].key) = Lower(Aliases(board)[j])
         THEN books[i].books
         ELSE VariantBooks(books, i + 1, board)

\* lines 248-270
_get_book_readers(config, board, is_white) ==
    LET books == config.engine.opening_books.books IN
    IF ~config.engine.opening_books.enabled THEN <<>>
    ELSE IF board.chess960 /\ HasKey(books, "chess960")
         THEN BooksOf(books, "chess960")
         ELSE IF board.uci_variant = "chess"
              THEN IF is_white /\ HasKey(books, "white")
                   THEN BooksOf(books, "white")
                   ELSE IF ~is_white /\ HasKey(books, "black")
                        THEN BooksOf(books, "black")
                        ELSE IF HasKey(books, "standard")
                             THEN BooksOf(books, "standard") ELSE <<>>
              ELSE VariantBooks(books, 1, board)

\* lines 705-714: the pondering the engine started for the game is
\* configured with
_get_engine(config, board) ==
    IF board.uci_variant # "chess" /\ config.engine.variants.enabled
    THEN [ponder_enabled |-> config.engine.variants.ponder]
    ELSE [ponder_enabled |-> config.engine.ponder]

\* lines 19-49
NewGame(gameFull_event, config) ==
    LET board == _setup_board(gameFull_event) IN
    [config |-> config,
     board |-> board,
     is_white |-> gameFull_event.is_white,
     initial_time |-> gameFull_event.clock.initial,
     increment |-> gameFull_event.clock.increment,
     white_time |-> gameFull_event.state.wtime,
     black_time |-> gameFull_event.state.btime,
     status |-> gameFull_event.state.status,
     draw_enabled |-> config.engine.offer_draw.enabled,
     resign_enabled |-> config.engine.resign.enabled,
     ponder_enabled |-> _get_engine(config, board).ponder_enabled,
     move_overhead |-> _get_move_overhead(config, gameFull_event.clock.initial),
     book_readers |-> _get_book_readers(config, board, gameFull_event.is_white),
     out_of_book_counter |-> 0,
     out_of_opening_explorer_counter |-> 0,
     out_of_cloud_counter |-> 0,
     out_of_chessdb_counter |-> 0,
     draw_scores |-> <<>>,
     resign_scores |-> <<>>]

-----------------------------------------------------------------------------
(* Helpers of the adapters *)

OwnTime(self) == IF self.is_white THEN self.white_time ELSE self.black_time
OppTime(self) == IF self.is_white THEN self.black_time ELSE self.white_time

\* the test that wants more than the minimum on the clock
_has_time_strict(self, min_time) ==
    IF Len(self.board.move_stack) < 2 THEN TRUE
    ELSE IF self.is_white THEN self.white_time > min_time * 1000
         ELSE self.black_time > min_time * 1000

\* lines 755-760
_has_time(self, min_time) ==
    IF Len(self.board.move_stack) < 2 THEN TRUE
    ELSE IF self.is_white THEN self.white_time >= min_time * 1000
         ELSE self.black_time >= min_time * 1000

\* the debit charged to the wrong side
_reduce_own_time_other(self, milliseconds) ==
    IF self.is_white
    THEN [self EXCEPT !.black_time = @ - milliseconds]
    ELSE [self EXCEPT !.white_time = @ - milliseconds]

\* lines 762-766
_reduce_own_time(self, milliseconds) ==
    IF self.is_white
    THEN [self EXCEPT !.white_time = @ - milliseconds]
    ELSE [self EXCEPT !.black_time = @ - milliseconds]

\* lines 768-771: on a copy of the board
_is_repetition(self, move) == IsRepetition(Push(self.board, move), 2)

\* What an adapter gives back: its return value (None, or a record with the
\* move), the object after it, the external queries it made, and the
\* exception it raised, if any.
Result(ret, self, io) == [ret |-> ret, self |-> self, io |-> io, raised |-> "none"]
Raise(exception, self, io) == [ret |-> None, self |-> self, io |-> io, raised |-> exception]

\* one external query: the source asked and the kind of answer
Call(src, answer) == [src |-> src, answer |-> answer]

\* random.choice(seq), rnd being the random draw
Choice(seq, rnd) == seq[(rnd % Len(seq)) + 1]

\* max(seq, key=...): the first element no other element beats
FirstMax(seq, Less(_, _)) ==
    LET IsMax(i) == \A j \in 1..Len(seq) : ~Less(seq[i], seq[j])
    IN seq[CHOOSE i \in 1..Len(seq) :
               IsMax(i) /\ \A k \in 1..(i - 1) : ~IsMax(k)]

-----------------------------------------------------------------------------
(* Opening book, lines 215-246 *)

BookLess(a, b) == a.weight < b.weight

\* lines 233-238: the entry a reader's entries give under the selection
BookSelect(entries, selection, rnd) ==
    IF selection = "weighted_random"
    THEN Choice(SelectSeq(entries, LAMBDA e : e.weight > 0), rnd)
    ELSE IF selection = "uniform_random"
         THEN Choice(entries, rnd)
         ELSE FirstMax(entries, BookLess)

BookEligible(self) ==
    /\ self.config.engine.opening_books.enabled
    /\ ~(self.out_of_book_counter >= 10)
    /\ ~(Ply(self.board) >= self.config.engine.opening_books.max_depth)

\* lines 230-246: the loop over the readers, from reader i on
RECURSIVE BookLoop(_, _, _, _)
BookLoop(self, i, rnd, io) ==
    IF i > Len(self.book_readers)
    THEN Result(None, [self EXCEPT !.out_of_book_counter = @ + 1], io)
    ELSE LET entries == self.book_readers[i][Key(self.board.move_stack)]
             io2 == Append(io, Call("book", "data"))
         IN IF entries # <<>>
            THEN LET entry == BookSelect(entries,
                                 self.config.engine.opening_books.selection, rnd[i])
                 IN IF ~_is_repetition(self, entry.move)
                    THEN Result([move |-> entry.move],
                                [self EXCEPT !.out_of_book_counter = 0], io2)
                    ELSE BookLoop(self, i + 1, rnd, io2)
            ELSE BookLoop(self, i + 1, rnd, io2)

_make_book_move(self, rnd) ==
    IF ~BookEligible(self) THEN Result(None, self, <<>>)
    ELSE BookLoop(self, 1, rnd, <<>>)

-----------------------------------------------------------------------------
(* Opening explorer, lines 272-329 *)

ExplorerMove(uci, white, draws, black, performance) ==
    [uci |-> uci, white |-> white, draws |-> draws, black |-> black,
     performance |-> performance]

MoveWins(self, move) == IF Turn(self.board) THEN move.white ELSE move.black
MoveLosses(self, move) == IF Turn(self.board) THEN move.black ELSE move.white
MoveGames(move) == move.white + move.draws + move.black

\* lines 316-329; called with a non-empty list of moves that have games
_get_opening_explorer_top_move(self, moves) ==
    LET WinRateLess(a, b) ==
            MoveWins(self, a) * MoveGames(b) < MoveWins(self, b) * MoveGames(a)
        PerformanceLess(a, b) == a.performance < b.performance
        top == IF self.config.engine.online_moves.opening_explorer.selection = "win_rate"
               THEN FirstMax(moves, WinRateLess)
               ELSE FirstMax(moves, PerformanceLess)
    IN [uci |-> top.uci, performance |-> top.performance,
        wins |-> MoveWins(self, top), draws |-> top.draws,
        losses |-> MoveLosses(self, top)]

\* the exception _get_opening_explorer_top_move raises on these moves
TopMoveRaises(self, moves) ==
    IF moves = <<>> THEN "ValueError"
    ELSE IF /\ self.config.engine.online_moves.opening_explorer.selection = "win_rate"
            /\ \E i \in 1..Len(moves) : MoveGames(moves[i]) = 0
         THEN "ZeroDivisionError"
         ELSE "none"

\* the gate that does not look at the miss counter
ExplorerEligible_uncounted(self) ==
    LET c == self.config.engine.online_moves.opening_explorer
    IN /\ c.enabled
       /\ ~(Ply(self.board) >= c.max_depth)
       /\ _has_time(self, c.min_time)
       /\ ~(self.board.uci_variant # "chess" /\ ~c.use_for_variants)

\* lines 273-287
ExplorerEligible(self) ==
    LET c == self.config.engine.online_moves.opening_explorer
    IN /\ c.enabled
       /\ ~(self.out_of_opening_explorer_counter >= 10)
       /\ ~(Ply(self.board) >= c.max_depth)
       /\ _has_time(self, c.min_time)
       /\ ~(self.board.uci_variant # "chess" /\ ~c.use_for_variants)

\* the adapter that counts a query without response as a miss
_make_opening_explorer_move_counting(self, response) ==
    LET c == self.config.engine.online_moves.opening_explorer
        io == <<Call("opening_explorer", response.kind)>>
        miss == [self EXCEPT !.out_of_opening_explorer_counter = @ + 1]
    IN IF ~ExplorerEligible(self) THEN Result(None, self, <<>>)
       ELSE IF response.kind = "none"
            THEN Result(None, _reduce_own_time(miss, c.timeout * 1000), io)
            ELSE IF response.white + response.draws + response.black
                        >= Max(c.min_games, 1)
                 THEN IF TopMoveRaises(self, response.moves) # "none"
                      THEN Raise(TopMoveRaises(self, response.moves), self, io)
                      ELSE LET top_move == _get_opening_explorer_top_move(self, response.moves)
                               reset == [self EXCEPT !.out_of_opening_explorer_counter = 0]
                           IN IF ~(c.only_with_wins /\ top_move.wins = 0)
                              THEN IF ~_is_repetition(reset, top_move.uci)
                                   THEN Result([move |-> top_move.uci,
                                                performance |-> top_move.performance,
                                                wdl |-> <<top_move.wins, top_move.draws,
                                                          top_move.losses>>],
                                               reset, io)
                                   ELSE Result(None,
                                               [reset EXCEPT !.out_of_opening_explorer_counter = @ + 1],
                                               io)
                              ELSE Result(None, miss, io)
                 ELSE Result(None, miss, io)

_make_opening_explorer_move(self, response) ==
    LET c == self.config.engine.online_moves.opening_explorer
        io == <<Call("opening_explorer", response.kind)>>
        miss == [self EXCEPT !.out_of_opening_explorer_counter = @ + 1]
    IN IF ~ExplorerEligible(self) THEN Result(None, self, <<>>)
       ELSE IF response.kind = "none"
            THEN Result(None, _reduce_own_time(self, c.timeout * 1000), io)
            ELSE IF response.white + response.draws + response.black
                        >= Max(c.min_games, 1)
                 THEN IF TopMoveRaises(self, response.moves) # "none"
                      THEN Raise(TopMoveRaises(self, response.moves), self, io)
                      ELSE LET top_move == _get_opening_explorer_top_move(self, response.moves)
                               reset == [self EXCEPT !.out_of_opening_explorer_counter = 0]
                           IN IF ~(c.only_with_wins /\ top_move.wins = 0)
                              THEN IF ~_is_repetition(reset, top_move.uci)
                                   THEN Result([move |-> top_move.uci,
                                                performance |-> top_move.performance,
                                                wdl |-> <<top_move.wins, top_move.draws,
                                                          top_move.losses>>],
                                               reset, io)
                                   ELSE Result(None,
                                               [reset EXCEPT !.out_of_opening_explorer_counter = @ + 1],
                                               io)
                              ELSE Result(None, miss, io)
                 ELSE Result(None, miss, io)

-----------------------------------------------------------------------------
(* Cloud evaluation, lines 331-362 *)

CloudEligible(self) ==
    LET c == self.config.engine.online_moves.lichess_cloud
    IN /\ c.enabled
       /\ ~(self.out_of_cloud_counter >= 10)
       /\ ~(Ply(self.board) >= c.max_depth)
       /\ _has_time(self, c.min_time)
       /\ ~(c.only_without_book /\ self.book_readers # <<>>)

\* the adapter that keeps its miss counter when it accepts a response
_make_cloud_move_unreset(self, response) ==
    LET c == self.config.engine.online_moves.lichess_cloud
        io == <<Call("lichess_cloud", response.kind)>>
        miss == [self EXCEPT !.out_of_cloud_counter = @ + 1]
    IN IF ~CloudEligible(self) THEN Result(None, self, <<>>)
       ELSE IF response.kind = "none"
            THEN Result(None, _reduce_own_time(self, c.timeout * 1000), io)
            ELSE IF response.kind # "error" /\ response.depth >= c.min_eval_depth
                 THEN IF ~_is_repetition(self, response.move)
                      THEN IF response.score.kind = "cp"
                           THEN Result([move |-> response.move,
                                        cp_score |-> response.score.value,
                                        depth |-> response.depth], self, io)
                           ELSE Raise("KeyError", self, io)
                      ELSE Result(None, miss, io)
                 ELSE Result(None, miss, io)

_make_cloud_move(self, response) ==
    LET c == self.config.engine.online_moves.lichess_cloud
        io == <<Call("lichess_cloud", response.kind)>>
        miss == [self EXCEPT !.out_of_cloud_counter = @ + 1]
    IN IF ~CloudEligible(self) THEN Result(None, self, <<>>)
       ELSE IF response.kind = "none"
            THEN Result(None, _reduce_own_time(self, c.timeout * 1000), io)
            ELSE IF response.kind # "error"
                 THEN IF response.depth >= c.min_eval_depth
                      THEN LET reset == [self EXCEPT !.out_of_cloud_counter = 0]
                           IN IF ~_is_repetition(reset, response.move)
                              THEN IF response.score.kind = "cp"
                                   THEN Result([move |-> response.move,
                                                cp_score |-> response.score.value,
                                                depth |-> response.depth], reset, io)
                                   ELSE Raise("KeyError", reset, io)
                              ELSE Result(None,
                                          [reset EXCEPT !.out_of_cloud_counter = @ + 1], io)
                      ELSE Result(None, miss, io)
                 ELSE Result(None, miss, io)

-----------------------------------------------------------------------------
(* ChessDB, lines 364-402 *)

ChessdbEligible(self) ==
    LET c == self.config.engine.online_moves.chessdb
    IN /\ c.enabled
       /\ ~(self.out_of_chessdb_counter >= 10)
       /\ ~(Ply(self.board) >= c.max_depth)
       /\ _has_time(self, c.min_time)
       /\ ~(self.board.uci_variant # "chess")
       /\ ~(self.board.pieces <= 7)

\* the adapter that does not count a move the guard rejects
_make_chessdb_move_forgiving(self, response) ==
    LET c == self.config.engine.online_moves.chessdb
        io == <<Call("chessdb", response.kind)>>
        miss == [self EXCEPT !.out_of_chessdb_counter = @ + 1]
    IN IF ~ChessdbEligible(self) THEN Result(None, self, <<>>)
       ELSE IF response.kind = "none"
            THEN Result(None, _reduce_own_time(self, c.timeout * 1000), io)
            ELSE IF response.kind # "error"
                 THEN IF (IF response.has_depth THEN response.depth ELSE 50)
                             >= c.min_eval_depth
                      THEN LET reset == [self EXCEPT !.out_of_chessdb_counter = 0]
                           IN IF ~_is_repetition(reset, response.move)
                              THEN Result([move |-> response.move], reset, io)
                              ELSE Result(None, reset, io)
                      ELSE Result(None, miss, io)
                 ELSE Result(None, miss, io)

_make_chessdb_move(self, response) ==
    LET c == self.config.engine.online_moves.chessdb
        io == <<Call("chessdb", response.kind)>>
        miss == [self EXCEPT !.out_of_chessdb_counter = @ + 1]
    IN IF ~ChessdbEligible(self) THEN Result(None, self, <<>>)
       ELSE IF response.kind = "none"
            THEN Result(None, _reduce_own_time(self, c.timeout * 1000), io)
            ELSE IF response.kind # "error"
                 THEN IF (IF response.has_depth THEN response.depth ELSE 50)
                             >= c.min_eval_depth
                      THEN LET reset == [self EXCEPT !.out_of_chessdb_counter = 0]
                           IN IF ~_is_repetition(reset, response.move)
                              THEN Result([move |-> response.move], reset, io)
                              ELSE Result(None,
                                          [reset EXCEPT !.out_of_chessdb_counter = @ + 1], io)
                      ELSE Result(None, miss, io)
                 ELSE Result(None, miss, io)

-----------------------------------------------------------------------------
(* Local tablebases, lines 404-520.  The input x holds the probes of the   *)
(* legal moves, in enumeration order, and the random draw.                 *)

TablebaseMove(move, outcome, distance, offer_draw, resign) ==
    [move |-> move, outcome |-> outcome, distance |-> distance,
     offer_draw |-> offer_draw, resign |-> resign]

GaviotaEligible(self) ==
    /\ self.config.engine.gaviota.enabled
    /\ self.board.pieces <= self.config.engine.gaviota.max_pieces
    /\ ~(self.board.uci_variant # "chess")

\* the selector that plays a cursed win
_make_gaviota_move_cursed(self, x) ==
    LET best == GaviotaScan(x.probes, 1, GaviotaStart)
        io == <<Call("gaviota", IF best.aborted THEN "missing" ELSE "data")>>
        move == Choice(best.best_moves, x.rnd)
    IN IF ~GaviotaEligible(self) THEN Result(None, self, <<>>)
       ELSE IF best.aborted THEN Result(None, self, io)
       ELSE IF best.best_wdl = 2
            THEN Result(TablebaseMove(move, "win", best.best_dtm, FALSE, FALSE), self, io)
       ELSE IF best.best_wdl = 0
            THEN Result(TablebaseMove(move, "draw", best.best_dtm, TRUE, FALSE), self, io)
       ELSE IF best.best_wdl = -2
            THEN Result(TablebaseMove(move, "loss", best.best_dtm, FALSE, TRUE), self, io)
       ELSE IF best.best_wdl = 1
            THEN Result(TablebaseMove(move, "cursed win", best.best_dtm, FALSE, FALSE), self, io)
       ELSE Result(None, self, io)

\* lines 404-455
_make_gaviota_move(self, x) ==
    LET best == GaviotaScan(x.probes, 1, GaviotaStart)
        io == <<Call("gaviota", IF best.aborted THEN "missing" ELSE "data")>>
        move == Choice(best.best_moves, x.rnd)
    IN IF ~GaviotaEligible(self) THEN Result(None, self, <<>>)
       ELSE IF best.aborted THEN Result(None, self, io)
       ELSE IF best.best_wdl = 2
            THEN Result(TablebaseMove(move, "win", best.best_dtm, FALSE, FALSE), self, io)
       ELSE IF best.best_wdl = 0
            THEN Result(TablebaseMove(move, "draw", best.best_dtm, TRUE, FALSE), self, io)
       ELSE IF best.best_wdl = -2
            THEN Result(TablebaseMove(move, "loss", best.best_dtm, FALSE, TRUE), self, io)
       ELSE Result(None, self, io)

SyzygyEligible(self) ==
    /\ self.config.engine.syzygy.enabled /\ self.config.engine.syzygy.instant_play
    /\ self.board.pieces <= self.config.engine.syzygy.max_pieces
    /\ self.board.uci_variant \in {"chess", "antichess", "atomic"}

\* the selector that plays on in a lost position without the resign signal
_make_syzygy_move_stubborn(self, x) ==
    LET best == SyzygyScan(x.probes, 1, SyzygyStart)
        io == <<Call("syzygy", IF best.aborted THEN "missing" ELSE "data")>>
        move == Choice(best.best_moves, x.rnd)
    IN IF ~SyzygyEligible(self) THEN Result(None, self, <<>>)
       ELSE IF best.aborted THEN Result(None, self, io)
       ELSE IF best.best_wdl = 2
            THEN Result(TablebaseMove(move, "win", best.best_real_dtz, FALSE, FALSE), self, io)
       ELSE IF best.best_wdl = 1
            THEN Result(TablebaseMove(move, "cursed win", best.best_real_dtz, FALSE, FALSE), self, io)
       ELSE IF best.best_wdl = 0
            THEN Result(TablebaseMove(move, "draw", best.best_real_dtz, TRUE, FALSE), self, io)
       ELSE IF best.best_wdl = -1
            THEN Result(TablebaseMove(move, "blessed loss", best.best_real_dtz, TRUE, FALSE), self, io)
       ELSE Result(TablebaseMove(move, "loss", best.best_real_dtz, FALSE, FALSE), self, io)

_make_syzygy_move(self, x) ==
    LET best == SyzygyScan(x.probes, 1, SyzygyStart)
        io == <<Call("syzygy", IF best.aborted THEN "missing" ELSE "data")>>
        move == Choice(best.best_moves, x.rnd)
    IN IF ~SyzygyEligible(self) THEN Result(None, self, <<>>)
       ELSE IF best.aborted THEN Result(None, self, io)
       ELSE IF best.best_wdl = 2
            THEN Result(TablebaseMove(move, "win", best.best_real_dtz, FALSE, FALSE), self, io)
       ELSE IF best.best_wdl = 1
            THEN Result(TablebaseMove(move, "cursed win", best.best_real_dtz, FALSE, FALSE), self, io)
       ELSE IF best.best_wdl = 0
            THEN Result(TablebaseMove(move, "draw", best.best_real_dtz, TRUE, FALSE), self, io)
       ELSE IF best.best_wdl = -1
            THEN Result(TablebaseMove(move, "blessed loss", best.best_real_dtz, TRUE, FALSE), self, io)
       ELSE Result(TablebaseMove(move, "loss", best.best_real_dtz, FALSE, TRUE), self, io)

-----------------------------------------------------------------------------
(* Online tablebase, lines 564-591 *)

EgtbEligible(self) ==
    LET c == self.config.engine.online_moves.online_egtb
        max_pieces == IF self.board.uci_variant = "chess" THEN 7 ELSE 6
    IN /\ c.enabled
       /\ self.board.pieces <= max_pieces
       /\ _has_time(self, c.min_time)
       /\ self.board.uci_variant \in {"chess", "antichess", "atomic"}

_make_egtb_move(self, response) ==
    LET c == self.config.engine.online_moves.online_egtb
        io == <<Call("online_egtb", response.kind)>>
    IN IF ~EgtbEligible(self) THEN Result(None, self, <<>>)
       ELSE IF response.kind = "none"
            THEN Result(None, _reduce_own_time(self, c.timeout * 1000), io)
            ELSE Result([move |-> response.uci, outcome |-> response.category,
                         distance |-> -response.dtz, dtm |-> response.dtm,
                         offer_draw |-> response.category \in {"draw", "blessed loss"},
                         resign |-> response.category = "loss"],
                        self, io)

-----------------------------------------------------------------------------
(* Engine and the draw/resign evaluator, lines 182-213 and 593-618 *)

Cp(v) == [kind |-> "cp", value |-> v]
Mate(n) == [kind |-> "mate", value |-> n]

\* score.relative.score(mate_score=40000)
ScoreValue(score) ==
    IF score.kind = "cp" THEN score.value
    ELSE IF score.value > 0 THEN 40000 - score.value ELSE -40000 - score.value

Abs(v) == IF v < 0 THEN -v ELSE v

\* the append that drops the new element when the window is full
DequeAppend_newest(dq, x, maxlen) ==
    IF Len(dq) >= maxlen THEN dq ELSE Append(dq, x)

\* deque(maxlen=maxlen).append(x)
DequeAppend(dq, x, maxlen) ==
    IF maxlen = 0 THEN <<>>
    ELSE IF Len(dq) >= maxlen THEN Append(Tail(dq), x) ELSE Append(dq, x)

\* the evaluator that is content with a window that is not full
_is_drawish_early(self) ==
    LET c == self.config.engine.offer_draw
    IN IF ~self.draw_enabled THEN FALSE
       ELSE IF FullmoveNumber(self.board) < c.min_game_length THEN FALSE
       ELSE \A i \in 1..Len(self.draw_scores) :
                ~(Abs(ScoreValue(self.draw_scores[i])) > c.score)

\* lines 182-198
_is_drawish(self) ==
    LET c == self.config.engine.offer_draw
        too_shallow == FullmoveNumber(self.board) < c.min_game_length
        too_few_scores == Len(self.draw_scores) < c.consecutive_moves
    IN IF ~self.draw_enabled THEN FALSE
       ELSE IF too_shallow \/ too_few_scores THEN FALSE
       ELSE \A i \in 1..Len(self.draw_scores) :
                ~(Abs(ScoreValue(self.draw_scores[i])) > c.score)

\* the evaluator that resigns on the latest score alone
_is_resignable_latest(self) ==
    LET c == self.config.engine.resign
    IN IF ~self.resign_enabled THEN FALSE
       ELSE IF Len(self.resign_scores) < c.consecutive_moves THEN FALSE
       ELSE ~(ScoreValue(self.resign_scores[Len(self.resign_scores)]) > c.score)

\* lines 200-213
_is_resignable(self) ==
    LET c == self.config.engine.resign
    IN IF ~self.resign_enabled THEN FALSE
       ELSE IF Len(self.resign_scores) < c.consecutive_moves THEN FALSE
       ELSE \A i \in 1..Len(self.resign_scores) :
                ~(ScoreValue(self.resign_scores[i]) > c.score)

\* lines 594-610: the limit handed to the engine; clocks in half milliseconds
\* (the code divides a clock in ms by two, then by 1000 to get seconds)
EngineLimit(self) ==
    IF Len(self.board.move_stack) < 2
    THEN [kind |-> "time", time |-> 15, ponder |-> FALSE]
    ELSE LET own == OwnTime(self)
             own2 == IF own > self.move_overhead
                     THEN 2 * (own - self.move_overhead) ELSE own
         IN [kind |-> "clock",
             white_clock |-> IF self.is_white THEN own2 ELSE 2 * self.white_time,
             black_clock |-> IF self.is_white THEN 2 * self.black_time ELSE own2,
             white_inc |-> self.increment, black_inc |-> self.increment,
             ponder |-> self.ponder_enabled]

\* the engine adapter that records the score before it looks at the move
_make_engine_move_eager(self, result) ==
    LET io == <<[src |-> "engine",
                 answer |-> IF result.move # 0 THEN "data" ELSE "none",
                 limit |-> EngineLimit(self)]>>
        score == IF result.score # None THEN result.score ELSE Mate(1)
        scored == [self EXCEPT
                      !.draw_scores = DequeAppend(@, score,
                            self.config.engine.offer_draw.consecutive_moves),
                      !.resign_scores = DequeAppend(@, score,
                            self.config.engine.resign.consecutive_moves)]
    IN IF result.move # 0
       THEN Result([move |-> result.move, info |-> result.score], scored, io)
       ELSE Raise("RuntimeError", scored, io)

\* lines 593-618; result is what engine.play gave: its move (0 for None)
\* and the score of its info (or None)
_make_engine_move(self, result) ==
    LET io == <<[src |-> "engine",
                 answer |-> IF result.move # 0 THEN "data" ELSE "none",
                 limit |-> EngineLimit(self)]>>
        score == IF result.score # None THEN result.score ELSE Mate(1)
    IN IF result.move # 0
       THEN Result([move |-> result.move, info |-> result.score],
                   [self EXCEPT
                      !.draw_scores = DequeAppend(@, score,
                            self.config.engine.offer_draw.consecutive_moves),
                      !.resign_scores = DequeAppend(@, score,
                            self.config.engine.resign.consecutive_moves)],
                   io)
       ELSE Raise("RuntimeError", self, io)

-----------------------------------------------------------------------------
(* What the outside world may answer *)

ExplorerResponse(white, draws, black, moves) ==
    [kind |-> "data", white |-> white, draws |-> draws, black |-> black,
     moves |-> moves]

ExplorerResponses ==
    {None,
     ExplorerResponse(2, 1, 0, <<ExplorerMove(1, 2, 1, 0, 2400)>>),
     ExplorerResponse(0, 1, 0, <<ExplorerMove(2, 0, 1, 0, 2300)>>),
     ExplorerResponse(1, 1, 1, <<ExplorerMove(1, 0, 1, 1, 2500),
                                 ExplorerMove(2, 1, 0, 0, 2400)>>),
     ExplorerResponse(2, 0, 0, <<>>),
     ExplorerResponse(2, 0, 0, <<ExplorerMove(1, 2, 0, 0, 2400),
                                 ExplorerMove(2, 0, 0, 0, 2000)>>)}

CloudResponse(depth, move, score) ==
    [kind |-> "data", depth |-> depth, move |-> move, score |-> score]

CloudResponses ==
    {None, [kind |-> "error"], CloudResponse(12, 1, Cp(15)),
     CloudResponse(25, 1, Cp(30)), CloudResponse(25, 2, Cp(-20)),
     CloudResponse(30, 1, Mate(3))}

ChessdbResponse(has_depth, depth, move) ==
    [kind |-> "data", has_depth |-> has_depth, depth |-> depth, move |-> move]

ChessdbResponses ==
    {None, [kind |-> "error"], ChessdbResponse(TRUE, 5, 1),
     ChessdbResponse(FALSE, 0, 1), ChessdbResponse(TRUE, 30, 2)}

EgtbResponse(uci, category, dtz, dtm) ==
    [kind |-> "data", uci |-> uci, category |-> category, dtz |-> dtz, dtm |-> dtm]

EgtbResponses ==
    {None, EgtbResponse(1, "win", -5, 9), EgtbResponse(2, "draw", 0, 0),
     EgtbResponse(1, "loss", 4, -8), EgtbResponse(2, "blessed loss", 104, -60)}

PlayResult(move, score) == [move |-> move, score |-> score]

EngineResults ==
    {PlayResult(0, None)} \cup
    {PlayResult(m, sc) : m \in Moves, sc \in {None, Cp(30), Cp(-600)}}

\* what a tablebase may say of one legal move
Missing(m) == Probe(m, FALSE, TRUE, 0, 0)
Checkmate(m) == Probe(m, TRUE, FALSE, 0, 0)
Probed(m, value, hmc) == Probe(m, FALSE, FALSE, value, hmc)

\* what a tablebase may say of the two legal moves of a game position, with
\* the random draw (either outcome where two moves tie): a win and a draw,
\* two draws, a missing table, a loss and a cursed win, two equal losses, a
\* loss and a blessed loss, a win and a checkmate, two wins of which the
\* slower resets the clock
TablebaseInputs(self) ==
    LET legal == LegalMoves(self.board)
        a == legal[1]
        b == legal[2]
        In(p1, p2, rnd) == [probes |-> <<p1, p2>>, rnd |-> rnd]
    IN {In(Probed(a, -3, 1), Probed(b, 0, 1), 0),
        In(Probed(a, 0, 1), Probed(b, 0, 1), 0),
        In(Probed(a, 0, 1), Probed(b, 0, 1), 1),
        In(Probed(a, -3, 1), Missing(b), 0),
        In(Probed(a, 4, 0), Probed(b, -101, 1), 0),
        In(Probed(a, 4, 1), Probed(b, 4, 1), 0),
        In(Probed(a, 4, 1), Probed(b, 4, 1), 1),
        In(Probed(a, 4, 1), Probed(b, 101, 1), 0),
        In(Probed(a, -3, 1), Checkmate(b), 0),
        In(Probed(a, -3, 1), Probed(b, -7, 0), 0)}

BookInputs(self) ==
    IF self.config.engine.opening_books.selection = "best_move"
    THEN {[i \in 1..Len(self.book_readers) |-> 0]}
    ELSE [1..Len(self.book_readers) -> 0..1]

-----------------------------------------------------------------------------
(* make_move, lines 51-92 *)

\* the chain with the cloud evaluation asked before the opening explorer
SourceOrder_swapped ==
    <<"book", "lichess_cloud", "opening_explorer", "chessdb", "gaviota",
      "syzygy", "online_egtb", "engine">>

\* the if/elif chain of lines 56-81
SourceOrder ==
    <<"book", "opening_explorer", "lichess_cloud", "chessdb", "gaviota",
      "syzygy", "online_egtb", "engine">>

Eligible(src, self) ==
    CASE src = "book" -> BookEligible(self)
      [] src = "opening_explorer" -> ExplorerEligible(self)
      [] src = "lichess_cloud" -> CloudEligible(self)
      [] src = "chessdb" -> ChessdbEligible(self)
      [] src = "gaviota" -> GaviotaEligible(self)
      [] src = "syzygy" -> SyzygyEligible(self)
      [] src = "online_egtb" -> EgtbEligible(self)
      [] src = "engine" -> TRUE

\* the answers a source may get; one dummy answer when it asks nothing
InputsOf(src, self) ==
    IF ~Eligible(src, self) THEN {None}
    ELSE CASE src = "book" -> BookInputs(self)
           [] src = "opening_explorer" -> ExplorerResponses
           [] src = "lichess_cloud" -> CloudResponses
           [] src = "chessdb" -> ChessdbResponses
           [] src = "gaviota" -> TablebaseInputs(self)
           [] src = "syzygy" -> TablebaseInputs(self)
           [] src = "online_egtb" -> EgtbResponses
           [] src = "engine" -> EngineResults

Adapter(src, self, x) ==
    CASE src = "book" -> _make_book_move(self, x)
      [] src = "opening_explorer" -> _make_opening_explorer_move(self, x)
      [] src = "lichess_cloud" -> _make_cloud_move(self, x)
      [] src = "chessdb" -> _make_chessdb_move(self, x)
      [] src = "gaviota" -> _make_gaviota_move(self, x)
      [] src = "syzygy" -> _make_syzygy_move(self, x)
      [] src = "online_egtb" -> _make_egtb_move(self, x)
      [] src = "engine" -> _make_engine_move(self, x)

\* the walrus tests of lines 56-76: the response counts as a move
Accepted(r) == r.ret # None

\* a search the engine is asked to run beside its play calls: its kind (a
\* ponder search without limit, or the 1 ms search that ends one) and the
\* position it is run on
Analysis(kind, board) == [kind |-> kind, position |-> board.move_stack]

\* the start that does not look at the flag
start_pondering_regardless(self) == <<Analysis("ponder", self.board)>>

\* lines 160-162: the searches started
start_pondering(self) ==
    IF self.ponder_enabled THEN <<Analysis("ponder", self.board)>> ELSE <<>>

\* the stop that leaves the flag as it is
stop_pondering_keeping(self) == self

\* lines 164-167
stop_pondering(self) ==
    IF self.ponder_enabled THEN [self EXCEPT !.ponder_enabled = FALSE] ELSE self

\* the return that hands the flags of the source on as they are
Returned_raw(self, move, offer_draw, resign) ==
    [move |-> move, offer_draw |-> offer_draw, resign |-> resign,
     signal |-> [offer_draw |-> offer_draw, resign |-> resign]]

\* line 92; signal keeps the flags of the source as they were before it
Returned(self, move, offer_draw, resign) ==
    [move |-> move, offer_draw |-> offer_draw /\ self.draw_enabled,
     resign |-> resign /\ self.resign_enabled,
     signal |-> [offer_draw |-> offer_draw, resign |-> resign]]

\* the push that is made twice
Pushed_twice(self, move) == [self EXCEPT !.board = Push(Push(@, move), move)]

\* line 89
Pushed(self, move) == [self EXCEPT !.board = Push(@, move)]

Out(op, status, source, returned, analysis, exception, changed) ==
    [op |-> op, status |-> status, source |-> source, move |-> returned.move,
     offer_draw |-> returned.offer_draw, resign |-> returned.resign,
     signal |-> returned.signal,
     analysis |-> analysis, exception |-> exception, changed |-> changed]

NoReturn == [move |-> 0, offer_draw |-> FALSE, resign |-> FALSE,
             signal |-> [offer_draw |-> FALSE, resign |-> FALSE]]

\* lines 57-92, once source src has given the response ret
Finish(src, self, ret, io) ==
    LET tablebase == src \in {"gaviota", "syzygy"}
        signalling == src \in {"gaviota", "syzygy", "online_egtb"}
        offer_draw == IF src = "engine" THEN _is_drawish(self)
                      ELSE IF signalling THEN ret.offer_draw ELSE FALSE
        resign == IF src = "engine" THEN _is_resignable(self)
                  ELSE IF signalling THEN ret.resign ELSE FALSE
        engine_move == src = "engine" /\ Len(self.board.move_stack) > 1
        stopped == IF tablebase THEN stop_pondering(self) ELSE self
        pushed == Pushed(stopped, ret.move)
        analysis ==
            (IF tablebase /\ self.ponder_enabled
             THEN <<Analysis("limit", self.board)>> ELSE <<>>)
            \o (IF ~engine_move THEN start_pondering(pushed) ELSE <<>>)
    IN /\ game' = pushed
       /\ out' = Out("make_move", "ok", src,
                     Returned(pushed, ret.move, offer_draw, resign),
                     analysis, "none", FALSE)
       /\ calls' = io
       /\ UNCHANGED fn

\* an exception leaves make_move; what was assigned before it stays
Failed(src, self, exception, io) ==
    /\ game' = self
    /\ out' = Out("make_move", "error", src, NoReturn, <<>>, exception, FALSE)
    /\ calls' = io
    /\ UNCHANGED fn

\* the chain from the i-th source on
RECURSIVE make_move_from(_, _, _)
make_move_from(i, self, io) ==
    \E x \in InputsOf(SourceOrder[i], self) :
        \E r \in {Adapter(SourceOrder[i], self, x)} :
           IF r.raised # "none"
           THEN Failed(SourceOrder[i], r.self, r.raised, io \o r.io)
           ELSE IF Accepted(r)
                THEN Finish(SourceOrder[i], r.self, r.ret, io \o r.io)
                ELSE make_move_from(i + 1, r.self, io \o r.io)

\* an exception that leaves make_move ends the handling of the game, and so
\* does a game state whose status is not "started" (is_finished, lines
\* 156-158): no method of the object is called after either
Alive == out.status # "error" /\ game.status = "started"

\* lines 140-142: the caller asks for a move when it is the bot's turn
is_our_turn(self) == self.is_white = Turn(self.board)

make_move ==
    /\ Alive
    /\ is_our_turn(game)
    /\ Len(game.board.move_stack) < MaxPly
    /\ make_move_from(1, game, <<>>)

-----------------------------------------------------------------------------
(* start_pondering and stop_pondering, lines 160-167, called on their own *)

\* lines 160-162: a ponder search on the current position, if pondering is on
StartPondering ==
    /\ Alive
    /\ game' = game
    /\ out' = Out("start_pondering", "ok", "none", NoReturn,
                  start_pondering(game), "none", FALSE)
    /\ calls' = <<>>
    /\ UNCHANGED fn

\* lines 164-167: pondering is switched off for good and the running search
\* is ended by a search of 1 ms
StopPondering ==
    /\ Alive
    /\ game' = stop_pondering(game)
    /\ out' = Out("stop_pondering", "ok", "none", NoReturn,
                  IF game.ponder_enabled
                  THEN <<Analysis("limit", game.board)>> ELSE <<>>,
                  "none", FALSE)
    /\ calls' = <<>>
    /\ UNCHANGED fn

-----------------------------------------------------------------------------
(* update, lines 94-105 *)

GameState(moves, wtime, btime, status) ==
    [moves |-> moves, wtime |-> wtime, btime |-> btime, status |-> status]

\* the gameState events that may arrive: the move list the local history
\* came from (an old event), the local history itself (an echo), or the
\* local history with one or two more moves
GameStateEvents(self) ==
    LET s == self.board.move_stack
        lists == {SubSeq(s, 1, Len(s) - 1), s}
                 \cup (IF Len(s) < MaxPly
                       THEN {Append(s, m) : m \in Moves} ELSE {})
                 \cup (IF Len(s) + 1 < MaxPly
                       THEN {s \o <<m, m>> : m \in Moves} ELSE {})
    IN {GameState(l, t[1], t[2], st) :
           l \in lists, t \in {<<2500, 1500>>},
           st \in {"started", "resign"}}

\* the event an update call was given, as the log keeps it
Delivered(gameState_event) ==
    [src |-> "gameState", answer |-> "data", event |-> gameState_event]

\* the update that empties the score windows
update_result_clearing(self, gameState_event) ==
    LET moves == gameState_event.moves
        seen == [self EXCEPT !.status = gameState_event.status,
                             !.draw_scores = <<>>, !.resign_scores = <<>>]
    IN IF Len(moves) <= Len(self.board.move_stack)
       THEN [self |-> seen, changed |-> FALSE]
       ELSE [self |-> [seen EXCEPT !.board = Push(@, moves[Len(moves)]),
                                   !.white_time = gameState_event.wtime,
                                   !.black_time = gameState_event.btime],
             changed |-> TRUE]

\* lines 94-105
update_result(self, gameState_event) ==
    LET moves == gameState_event.moves
        seen == [self EXCEPT !.status = gameState_event.status]
    IN IF Len(moves) <= Len(self.board.move_stack)
       THEN [self |-> seen, changed |-> FALSE]
       ELSE [self |-> [seen EXCEPT !.board = Push(@, moves[Len(moves)]),
                                   !.white_time = gameState_event.wtime,
                                   !.black_time = gameState_event.btime],
             changed |-> TRUE]

update ==
    /\ Alive
    /\ \E gameState_event \in GameStateEvents(game) :
        \E r \in {update_result(game, gameState_event)} :
           /\ game' = r.self
           /\ out' = Out("update", "ok", "none", NoReturn, <<>>, "none", r.changed)
           /\ calls' = <<Delivered(gameState_event)>>
           /\ UNCHANGED fn

-----------------------------------------------------------------------------
(* The game *)

NoFn == [op |-> "none"]

Init ==
    /\ \E scenario \in Scenarios : game = NewGame(scenario[2], scenario[1])
    /\ out = Out("init", "ok", "none", NoReturn, <<>>, "none", FALSE)
    /\ calls = <<>>
    /\ fn = NoFn

Next == make_move \/ update \/ StartPondering \/ StopPondering

Spec == Init /\ [][Next]_vars

-----------------------------------------------------------------------------
(* The classifier on its own: every distance and halfmove clock within the *)
(* bounds is an input, and the only action applies the classifier to it.   *)

\* the game the specifications of single functions leave untouched: a game
\* from a position of 5 men
IdleGame ==
    NewGame(GameFull(FALSE, Variants.fromPosition, Fen(5, TRUE, 1), <<>>,
                     3000, 2000), ConfigTablebase)

InitWdl ==
    /\ game = IdleGame
    /\ out = Out("init", "ok", "none", NoReturn, <<>>, "none", FALSE)
    /\ calls = <<>>
    /\ \E d \in (-MaxDist)..MaxDist, h \in 0..MaxClock :
           fn = [op |-> "_value_to_wdl", done |-> FALSE, value |-> d,
                 halfmove_clock |-> h, wdl |-> 0]

Classify ==
    /\ fn.op = "_value_to_wdl" /\ ~fn.done
    /\ fn' = [fn EXCEPT !.done = TRUE,
                        !.wdl = _value_to_wdl(fn.value, fn.halfmove_clock)]
    /\ UNCHANGED <<game, out, calls>>

NextWdl == Classify

SpecWdl == InitWdl /\ [][NextWdl]_vars

-----------------------------------------------------------------------------
(* The tablebase selectors on their own: the probes of up to MaxLegal      *)
(* legal moves, in every enumeration order, and the random draw are the    *)
(* input; the only action runs the selector on the idle game.              *)

\* what a tablebase may say of one legal move: a missing table, checkmate,
\* wins in 3 and in 7, a win in 3 that resets the clock, a cursed win in 1,
\* a draw, a loss in 4 with and without a clock reset, a blessed loss
ScanProbes ==
    {Missing(0), Checkmate(0), Probed(0, -3, 1), Probed(0, -7, 1),
     Probed(0, -3, 0), Probed(0, -1, 100), Probed(0, 0, 1), Probed(0, 4, 1),
     Probed(0, 4, 0), Probed(0, 101, 1)}

\* the probes of n legal moves, the i-th enumerated move being move i
ScanInputs(n) ==
    {[i \in 1..n |-> [said[i] EXCEPT !.move = i]] : said \in [1..n -> ScanProbes]}

InitScan ==
    /\ game = IdleGame
    /\ out = Out("init", "ok", "none", NoReturn, <<>>, "none", FALSE)
    /\ calls = <<>>
    /\ \E tablebase \in {"gaviota", "syzygy"}, n \in 1..MaxLegal :
         \E probes \in ScanInputs(n), rnd \in 0..(n - 1) :
           fn = [op |-> tablebase, done |-> FALSE, probes |-> probes,
                 rnd |-> rnd, best_moves |-> <<>>, aborted |-> FALSE,
                 ret |-> None]

Select ==
    /\ fn.op \in {"gaviota", "syzygy"} /\ ~fn.done
    /\ \E best \in {IF fn.op = "gaviota"
                    THEN GaviotaScan(fn.probes, 1, GaviotaStart)
                    ELSE SyzygyScan(fn.probes, 1, SyzygyStart)} :
         \E r \in {Adapter(fn.op, game, [probes |-> fn.probes, rnd |-> fn.rnd])} :
            fn' = [fn EXCEPT !.done = TRUE, !.best_moves = best.best_moves,
                             !.aborted = best.aborted, !.ret = r.ret]
    /\ UNCHANGED <<game, out, calls>>

NextScan == Select

SpecScan == InitScan /\ [][NextScan]_vars

-----------------------------------------------------------------------------
(* A long game: one session played for up to MaxGame plies, in which every *)
(* move played is move 1 and the remote sources answer with a miss, with   *)
(* an error, with no response, or with move 1 as their candidate.  The methods are the    *)
(* same; only the answers of the outside world are fewer, so that the ten  *)
(* misses that disable a source and the eviction from a full score window  *)
(* are within reach.                                                       *)

ConfigLong ==
    [ConfigBase EXCEPT
       !.engine.opening_books.enabled = TRUE,
       !.engine.opening_books.books = <<Books("standard", <<BookB>>)>>,
       !.engine.online_moves.opening_explorer.enabled = TRUE,
       !.engine.online_moves.lichess_cloud.enabled = TRUE,
       !.engine.online_moves.chessdb.enabled = TRUE,
       !.engine.offer_draw.consecutive_moves = 3]

\* the online tablebase and the engine, for a long endgame
ConfigEndgame ==
    [ConfigBase EXCEPT !.engine.online_moves.online_egtb.enabled = TRUE]

\* the long games: a game of standard chess from the start position, and
\* an endgame from a position of 5 men
LongScenarios ==
    {<<ConfigLong,
       GameFull(TRUE, Variants.standard, Fen(32, TRUE, 1), <<>>, 3000, 2000)>>,
     <<ConfigEndgame,
       GameFull(TRUE, Variants.fromPosition, Fen(5, TRUE, 1), <<>>, 3000, 2000)>>}

\* the answers a source may get in the long game
LongInputsOf(src, self) ==
    IF ~Eligible(src, self) THEN {None}
    ELSE CASE src = "book" -> BookInputs(self)
           [] src = "opening_explorer" ->
                {None, ExplorerResponse(0, 1, 0, <<ExplorerMove(1, 0, 1, 0, 2300)>>),
                 ExplorerResponse(2, 1, 0, <<ExplorerMove(1, 2, 1, 0, 2400)>>)}
           [] src = "lichess_cloud" ->
                {[kind |-> "error"], CloudResponse(12, 1, Cp(15)),
                 CloudResponse(25, 1, Cp(30))}
           [] src = "chessdb" -> {ChessdbResponse(TRUE, 5, 1)}
           [] src = "gaviota" -> TablebaseInputs(self)
           [] src = "syzygy" -> TablebaseInputs(self)
           [] src = "online_egtb" -> {None, EgtbResponse(1, "win", -5, 9)}
           [] src = "engine" -> {PlayResult(1, Cp(30)), PlayResult(1, Cp(-600))}

\* the chain of lines 56-81 from the i-th source on, in the long game
RECURSIVE make_move_long_from(_, _, _)
make_move_long_from(i, self, io) ==
    \E x \in LongInputsOf(SourceOrder[i], self) :
        \E r \in {Adapter(SourceOrder[i], self, x)} :
           IF r.raised # "none"
           THEN Failed(SourceOrder[i], r.self, r.raised, io \o r.io)
           ELSE IF Accepted(r)
                THEN Finish(SourceOrder[i], r.self, r.ret, io \o r.io)
                ELSE make_move_long_from(i + 1, r.self, io \o r.io)

make_move_long ==
    /\ Alive
    /\ is_our_turn(game)
    /\ Len(game.board.move_stack) < MaxGame
    /\ make_move_long_from(1, game, <<>>)

\* the gameState events of the long game: an old event, an echo, or the
\* opponent's move 1
LongGameStateEvents(self) ==
    LET s == self.board.move_stack
        lists == {SubSeq(s, 1, Len(s) - 1), s}
                 \cup (IF Len(s) < MaxGame /\ ~is_our_turn(self)
                       THEN {Append(s, 1)} ELSE {})
    IN {GameState(l, 2500, 1500, "started") : l \in lists}

update_long ==
    /\ Alive
    /\ \E gameState_event \in LongGameStateEvents(game) :
        \E r \in {update_result(game, gameState_event)} :
           /\ game' = r.self
           /\ out' = Out("update", "ok", "none", NoReturn, <<>>, "none", r.changed)
           /\ calls' = <<Delivered(gameState_event)>>
           /\ UNCHANGED fn

InitLong ==
    /\ \E scenario \in LongScenarios : game = NewGame(scenario[2], scenario[1])
    /\ out = Out("init", "ok", "none", NoReturn, <<>>, "none", FALSE)
    /\ calls = <<>>
    /\ fn = NoFn

NextLong == make_move_long \/ update_long \/ StartPondering \/ StopPondering

SpecLong == InitLong /\ [][NextLong]_vars

-----------------------------------------------------------------------------
(* The draw/resign evaluator on its own: the session is one an engine move *)
(* has just scored (line 82), with up to MaxScores engine scores arrived   *)
(* so far; the only action evaluates _is_drawish and _is_resignable on it. *)

ConfigSignal(draw_enabled, resign_enabled) ==
    [ConfigBase EXCEPT
       !.engine.offer_draw.enabled = draw_enabled,
       !.engine.offer_draw.min_game_length = 4,
       !.engine.offer_draw.consecutive_moves = 3,
       !.engine.resign.enabled = resign_enabled]

\* the scores an engine may report
SignalScores ==
    {Cp(10), Cp(-20), Cp(30), Cp(60), Cp(50), Cp(-499), Cp(-500), Cp(-501)}

\* a window after the scores have been appended to it one by one
RECURSIVE Appended(_, _, _)
Appended(dq, scores, maxlen) ==
    IF scores = <<>> THEN dq
    ELSE Appended(DequeAppend(dq, scores[1], maxlen), Tail(scores), maxlen)

\* the session after ply moves and these engine scores, in a game from the
\* start position or from a position with White to move
SignalGame(config, variant, initialFen, ply, scores) ==
    [NewGame(GameFull(TRUE, variant, initialFen, [i \in 1..ply |-> 1],
                      3000, 2000), config) EXCEPT
       !.draw_scores = Appended(<<>>, scores,
                                config.engine.offer_draw.consecutive_moves),
       !.resign_scores = Appended(<<>>, scores,
                                  config.engine.resign.consecutive_moves)]

\* the games the signals are evaluated in start from the start position or
\* from a position at move 3
InitSignal ==
    /\ \E flags \in {<<TRUE, TRUE>>, <<TRUE, FALSE>>, <<FALSE, TRUE>>},
          start \in {<<Variants.standard, Fen(32, TRUE, 1)>>,
                     <<Variants.fromPosition, Fen(8, TRUE, 3)>>},
          ply \in {p \in 0..MaxSignalPly : p % 2 = 0}, n \in 1..MaxScores :
         /\ n <= ply \div 2 + 1
         /\ \E scores \in [1..n -> SignalScores] :
              game = SignalGame(ConfigSignal(flags[1], flags[2]), start[1],
                                start[2], ply, scores)
    /\ out = Out("init", "ok", "none", NoReturn, <<>>, "none", FALSE)
    /\ calls = <<>>
    /\ fn = [op |-> "signals", done |-> FALSE, drawish |-> FALSE,
             resignable |-> FALSE]

\* lines 83-84
Evaluate ==
    /\ fn.op = "signals" /\ ~fn.done
    /\ fn' = [fn EXCEPT !.done = TRUE, !.drawish = _is_drawish(game),
                        !.resignable = _is_resignable(game)]
    /\ UNCHANGED <<game, out, calls>>

NextSignal == Evaluate

SpecSignal == InitSignal /\ [][NextSignal]_vars

-----------------------------------------------------------------------------
(* The move overhead on its own: the initial clock of the gameFull event,  *)
(* in ms, and the configured multiplier are the input; the only action     *)
(* constructs the session (lines 27 and 36).                               *)

\* the multipliers 1.0, 1.5, 0.5, 1.35 and 0.7
Multipliers ==
    {[num |-> 1, den |-> 1], [num |-> 3, den |-> 2], [num |-> 1, den |-> 2],
     [num |-> 27, den |-> 20], [num |-> 7, den |-> 10]}

InitOverhead ==
    /\ game = IdleGame
    /\ out = Out("init", "ok", "none", NoReturn, <<>>, "none", FALSE)
    /\ calls = <<>>
    /\ \E k \in 0..MaxInitial, multiplier \in Multipliers :
           fn = [op |-> "_get_move_overhead", done |-> FALSE,
                 initial_time |-> k * 5000, multiplier |-> multiplier,
                 overhead |-> 0]

Construct ==
    /\ fn.op = "_get_move_overhead" /\ ~fn.done
    /\ \E config \in {[ConfigEngine EXCEPT !.move_overhead_multiplier = fn.multiplier]} :
        \E gameFull_event \in {[GameFull(TRUE, Variants.standard, Fen(32, TRUE, 1),
                                          <<>>, fn.initial_time, fn.initial_time)
                                   EXCEPT !.clock.initial = fn.initial_time]} :
           /\ game' = NewGame(gameFull_event, config)
           /\ fn' = [fn EXCEPT !.done = TRUE,
                               !.overhead = _get_move_overhead(config,
                                                gameFull_event.clock.initial)]
    /\ UNCHANGED <<out, calls>>

NextOverhead == Construct

SpecOverhead == InitOverhead /\ [][NextOverhead]_vars

-----------------------------------------------------------------------------
(* The remote adapters on their own: the session is one whose turn it is   *)
(* after up to MaxGatePly plies, with the clocks of its last gameState     *)
(* event and the miss counters its earlier cycles left; the only action    *)
(* runs one remote adapter on it (lines 59, 62, 66, 76), whatever answer   *)
(* its service would give.                                                 *)

\* the four remote sources enabled or not, with or without a depth ceiling
ConfigGate(enabled, max_depth) ==
    [ConfigBase EXCEPT
       !.engine.online_moves.opening_explorer.enabled = enabled,
       !.engine.online_moves.opening_explorer.max_depth = max_depth,
       !.engine.online_moves.lichess_cloud.enabled = enabled,
       !.engine.online_moves.lichess_cloud.max_depth = max_depth,
       !.engine.online_moves.chessdb.enabled = enabled,
       !.engine.online_moves.chessdb.max_depth = max_depth,
       !.engine.online_moves.online_egtb.enabled = enabled]

\* the bot's clock, in ms: below, at and above a minimum of 1 s
GateClocks == {500, 1000, 1500}

\* the misses a counter may hold
GateCounters == {0, 4, 9, 10}

\* the session of the side to move after ply moves
GateGame(config, ply, variant, initialFen, own, counter) ==
    LET gameFull_event == GameFull(TRUE, variant, initialFen,
                                   [i \in 1..ply |-> 1], own, own)
        side == Turn(_setup_board(gameFull_event))
    IN
    [NewGame([gameFull_event EXCEPT !.is_white = side], config) EXCEPT
       !.out_of_opening_explorer_counter = counter,
       !.out_of_cloud_counter = counter,
       !.out_of_chessdb_counter = counter]

\* what the service of a remote source may answer
ResponsesOf(src) ==
    CASE src = "opening_explorer" -> ExplorerResponses
      [] src = "lichess_cloud" -> CloudResponses
      [] src = "chessdb" -> ChessdbResponses
      [] src = "online_egtb" -> EgtbResponses

\* the games the gates are evaluated in: standard chess and Atomic from
\* their start positions of 32 men, and games from a position of 5 and of
\* 8 men with Black to move at move 2
InitGate ==
    /\ \E enabled \in BOOLEAN, max_depth \in {2, Infinity}, ply \in 0..MaxGatePly,
          start \in {<<Variants.standard, Fen(32, TRUE, 1)>>,
                     <<Variants.atomic, Fen(32, TRUE, 1)>>,
                     <<Variants.fromPosition, Fen(5, FALSE, 2)>>,
                     <<Variants.fromPosition, Fen(8, FALSE, 2)>>},
          own \in GateClocks, counter \in GateCounters :
         game = GateGame(ConfigGate(enabled, max_depth), ply,
                         start[1], start[2], own, counter)
    /\ out = Out("init", "ok", "none", NoReturn, <<>>, "none", FALSE)
    /\ calls = <<>>
    /\ fn = [op |-> "adapter", done |-> FALSE, src |-> "none",
             response |-> None, ret |-> None, raised |-> "none"]

Query ==
    /\ fn.op = "adapter" /\ ~fn.done
    /\ \E src \in {"opening_explorer", "lichess_cloud", "chessdb", "online_egtb"} :
        \E response \in ResponsesOf(src) :
          \E r \in {Adapter(src, game, response)} :
             /\ game' = r.self
             /\ calls' = r.io
             /\ fn' = [fn EXCEPT !.done = TRUE, !.src = src,
                                 !.response = response, !.ret = r.ret,
                                 !.raised = r.raised]
    /\ UNCHANGED out

NextGate == Query

SpecGate == InitGate /\ [][NextGate]_vars

-----------------------------------------------------------------------------
(* Properties *)

Cycle == out.op = "make_move"
Moved == out.op = "make_move" /\ out.status = "ok"

\* the order the sources are to be consulted in
Rank(src) ==
    CASE src = "book" -> 1
      [] src = "opening_explorer" -> 2
      [] src = "lichess_cloud" -> 3
      [] src = "chessdb" -> 4
      [] src = "gaviota" -> 5
      [] src = "syzygy" -> 6
      [] src = "online_egtb" -> 7
      [] src = "engine" -> 8

Queried(src) == \E i \in 1..Len(calls) : calls[i].src = src

\* C1: in a make_move cycle the queries are issued in the order book, opening
\* explorer, cloud, ChessDB, Gaviota, Syzygy, online tablebase, engine; the
\* source that returns the move is the last one queried and no source after
\* it in the order is queried.
C1_FixedOrder ==
    Cycle =>
      /\ \A i, j \in 1..Len(calls) :
            i < j => Rank(calls[i].src) <= Rank(calls[j].src)
      /\ Moved =>
           /\ calls # <<>> /\ calls[Len(calls)].src = out.source
           /\ \A i \in 1..Len(calls) : Rank(calls[i].src) <= Rank(out.source)

\* a cycle in which six sources were asked in turn and Syzygy gave the move
C1_Witness ==
    /\ Moved /\ out.source = "syzygy"
    /\ \A src \in {"book", "opening_explorer", "lichess_cloud", "chessdb",
                   "gaviota", "syzygy"} : Queried(src)

\* C2: a make_move cycle that returns leaves the move stack one move longer,
\* the new last move being the move returned; nothing else of the stack
\* changes, whatever the declining sources tried.
C2_OneMovePushed ==
    [][(out'.op = "make_move" /\ out'.status = "ok")
         => game'.board.move_stack = Append(game.board.move_stack, out'.move)]_vars

\* a cycle in which a source declined before another gave the move
C2_Witness ==
    /\ Moved /\ Len(calls) >= 3 /\ out.source = "chessdb"
    /\ game.board.move_stack = <<out.move>>

NonEngine == {"book", "opening_explorer", "lichess_cloud", "chessdb",
              "gaviota", "syzygy", "online_egtb"}
Guarded == {"book", "opening_explorer", "lichess_cloud", "chessdb"}

\* C3 as claimed: a move returned by any non-engine source does not repeat
\* a position.  Gaviota, Syzygy and the online tablebase apply no
\* repetition guard, so a move of theirs may bring a position back.
C3_Claimed == (Moved /\ out.source \in NonEngine) => ~IsRepetition(game.board, 2)

\* C4: a cycle in which no source before the engine returns or raises asks
\* the engine; the cycle fails with the fatal error exactly when the engine
\* gives no move, and the failing cycle leaves the move stack and both
\* score windows as they were.
C4_EngineFailure ==
    [][out'.op = "make_move" =>
        LET last == calls'[Len(calls')]
            fatal == out'.status = "error" /\ out'.exception = "RuntimeError"
        IN /\ calls' # <<>>
           /\ (out'.source = "engine") = (last.src = "engine")
           /\ fatal = (last.src = "engine" /\ last.answer = "none")
           /\ fatal => /\ game'.board = game.board
                       /\ game'.draw_scores = game.draw_scores
                       /\ game'.resign_scores = game.resign_scores]_vars

\* the engine gave no move after other sources had declined and a score was
\* already in the windows
C4_Witness ==
    /\ Cycle /\ out.exception = "RuntimeError" /\ Len(calls) >= 2
    /\ game.draw_scores # <<>>

\* C5 as claimed: make_move fails only when the engine produces no move.
C5_Claimed == (Cycle /\ out.status = "error") => out.exception = "RuntimeError"

\* C6: the draw flag returned is true only if draw offers are enabled, the
\* resign flag only if resignation is enabled, whichever source moved.
C6_FlagsGated ==
    Moved => /\ out.offer_draw => game.config.engine.offer_draw.enabled
             /\ out.resign => game.config.engine.resign.enabled

\* a tablebase signalled a draw and the flag was withheld
C6_Witness ==
    /\ Moved /\ out.signal.offer_draw /\ ~out.offer_draw
    /\ out.source \in {"gaviota", "syzygy"}

\* the rule of the classifier as the specification states it
Classified(d, h) ==
    IF d > 0 /\ d + h <= 100 THEN 2
    ELSE IF d > 0 /\ d + h > 100 THEN 1
    ELSE IF d < 0 /\ d - h >= -100 THEN -2
    ELSE IF d < 0 /\ d - h < -100 THEN -1
    ELSE 0

Classifies(d, h, wdl) ==
    (fn.op = "_value_to_wdl" /\ fn.done /\ fn.value = d /\ fn.halfmove_clock = h)
        => fn.wdl = wdl

\* C7: the classifier gives +2 for d > 0 with d + h <= 100, +1 for d > 0
\* with d + h > 100, -2 for d < 0 with d - h >= -100, -1 for d < 0 with
\* d - h < -100 and 0 for d = 0; so (5,96) gives +1, (5,90) +2, (-5,96) -1
\* and (0,40) 0.
C7_ClassifierRule ==
    /\ (fn.op = "_value_to_wdl" /\ fn.done)
          => fn.wdl = Classified(fn.value, fn.halfmove_clock)
    /\ Classifies(5, 96, 1) /\ Classifies(5, 90, 2)
    /\ Classifies(-5, 96, -1) /\ Classifies(0, 40, 0)

\* the classifier has been applied to (5, 96)
C7_Witness ==
    /\ fn.op = "_value_to_wdl" /\ fn.done
    /\ fn.value = 5 /\ fn.halfmove_clock = 96 /\ fn.wdl = 1

\* C8: the class of -d is the negated class of d at the same halfmove
\* clock, and the class of distance 0 is 0.
C8_Antisymmetric ==
    (fn.op = "_value_to_wdl" /\ fn.done) =>
        /\ _value_to_wdl(-fn.value, fn.halfmove_clock) = -fn.wdl
        /\ fn.value = 0 => fn.wdl = 0

\* the classifier has been applied to a loss that the clock turns blessed
C8_Witness ==
    /\ fn.op = "_value_to_wdl" /\ fn.done
    /\ fn.value = -40 /\ fn.halfmove_clock = 61 /\ fn.wdl = -1

\* the class and the comparison distance of a probed move, as the
\* specification states them
ClassOf(tablebase, p) ==
    IF tablebase = "gaviota" /\ p.checkmate THEN 2
    ELSE Classified(-p.value, p.halfmove_clock)

DistanceOf(tablebase, p) ==
    IF tablebase = "gaviota"
    THEN IF p.checkmate THEN 0 ELSE -p.value
    ELSE IF p.halfmove_clock # 0 \/ ClassOf(tablebase, p) = 0 THEN -p.value
         ELSE IF ClassOf(tablebase, p) > 0 THEN -p.value - 10000
              ELSE -p.value + 10000

Better(tablebase, p, q) ==
    \/ ClassOf(tablebase, p) > ClassOf(tablebase, q)
    \/ /\ ClassOf(tablebase, p) = ClassOf(tablebase, q)
       /\ DistanceOf(tablebase, p) < DistanceOf(tablebase, q)

\* the moves of maximal class and, among them, of minimal distance
BestSet(tablebase, probes) ==
    {probes[i].move : i \in {k \in 1..Len(probes) :
        \A j \in 1..Len(probes) : ~Better(tablebase, probes[j], probes[k])}}

Selected == fn.op \in {"gaviota", "syzygy"} /\ fn.done

\* C9: after a scan in which no table is missing, the moves a local
\* tablebase selector draws from are exactly the legal moves of maximal
\* class and, among those, of minimal comparison distance, each once,
\* whatever the enumeration order; a move it returns is one of them.
C9_BestSet ==
    (Selected /\ \A i \in 1..Len(fn.probes) : ~fn.probes[i].missing) =>
        /\ ~fn.aborted
        /\ {fn.best_moves[i] : i \in 1..Len(fn.best_moves)}
               = BestSet(fn.op, fn.probes)
        /\ Len(fn.best_moves) = Cardinality(BestSet(fn.op, fn.probes))
        /\ fn.ret # None => fn.ret.move \in BestSet(fn.op, fn.probes)

\* a win in 7, a cursed win in 1 and a win in 3, in this order: the win in 3
\* was returned
C9_Witness ==
    /\ Selected /\ fn.op = "gaviota"
    /\ fn.probes = <<Probed(1, -7, 1), Probed(2, -1, 100), Probed(3, -3, 1)>>
    /\ fn.best_moves = <<3>> /\ fn.ret # None /\ fn.ret.move = 3

Remote == {"opening_explorer", "lichess_cloud", "chessdb", "online_egtb"}

\* the configured timeout of a remote source, in seconds
TimeoutOf(config, src) ==
    CASE src = "opening_explorer" -> config.engine.online_moves.opening_explorer.timeout
      [] src = "lichess_cloud" -> config.engine.online_moves.lichess_cloud.timeout
      [] src = "chessdb" -> config.engine.online_moves.chessdb.timeout
      [] src = "online_egtb" -> config.engine.online_moves.online_egtb.timeout

\* the milliseconds the remote queries of a log with these answers cost
RECURSIVE Debit(_, _, _)
Debit(log, answers, config) ==
    IF log = <<>> THEN 0
    ELSE (IF log[1].src \in Remote /\ log[1].answer \in answers
          THEN TimeoutOf(config, log[1].src) * 1000 ELSE 0)
         + Debit(Tail(log), answers, config)

\* a make_move step charges exactly the queries with these answers to the
\* bot's own clock, leaves the opponent's clock alone, and no source so
\* answered gives the move
DebitedFor(answers) ==
    out'.op = "make_move" =>
        /\ OwnTime(game') = OwnTime(game) - Debit(calls', answers, game.config)
        /\ OppTime(game') = OppTime(game)
        /\ \A i \in 1..Len(calls') :
              (calls'[i].src \in Remote /\ calls'[i].answer \in answers)
                  => ~(out'.status = "ok" /\ out'.source = calls'[i].src)

\* C10 as claimed: a remote query answered by no response or by an error
\* costs the bot's clock timeout x 1000 ms and yields no move.
C10_Claimed == [][DebitedFor({"none", "error"})]_vars

\* C10: a remote query that gets no response costs the bot's own clock
\* exactly timeout x 1000 ms, leaves the opponent's clock unchanged and
\* yields no move; an error answer (a cloud response with an error, a
\* ChessDB status other than ok) is counted as a miss and costs nothing.
C10_NoResponseDebit == [][DebitedFor({"none"})]_vars

\* the cloud (2 s) and ChessDB (1 s) both gave no response: 3000 ms are gone
C10_Witness ==
    /\ Cycle /\ game.is_white
    /\ \E i, j \in 1..Len(calls) :
          /\ calls[i].src = "lichess_cloud" /\ calls[i].answer = "none"
          /\ calls[j].src = "chessdb" /\ calls[j].answer = "none"
    /\ game.board.move_stack = <<out.move>>
    /\ game.white_time = 0 /\ game.black_time = 2000

Counted == {"book", "opening_explorer", "lichess_cloud", "chessdb"}

\* the miss counter of a counted source
Counter(self, src) ==
    CASE src = "book" -> self.out_of_book_counter
      [] src = "opening_explorer" -> self.out_of_opening_explorer_counter
      [] src = "lichess_cloud" -> self.out_of_cloud_counter
      [] src = "chessdb" -> self.out_of_chessdb_counter

\* C11: no miss counter of the book, the explorer, the cloud or ChessDB ever
\* exceeds 10, and once a counter has reached 10 no later make_move or
\* update changes it or queries its source again.
C11_DisabledForGood ==
    [][\A src \in Counted :
          /\ Counter(game', src) <= 10
          /\ Counter(game, src) >= 10 =>
                /\ Counter(game', src) = Counter(game, src)
                /\ \A i \in 1..Len(calls') : calls'[i].src # src]_vars

\* the explorer has missed ten times; the cycle just run asked the cloud
\* and did not ask the explorer
C11_Witness ==
    /\ Moved
    /\ game.out_of_opening_explorer_counter = 10
    /\ game.out_of_book_counter = 10
    /\ ~Queried("opening_explorer") /\ ~Queried("book")
    /\ Queried("lichess_cloud")

\* C12: when make_move returns the move of a counted source, that source's
\* miss counter is 0 afterwards; the call leaves the counters of the other
\* sources alone: those of the sources after it in the chain keep their
\* value, and one of a source before it differs only by what that source's
\* own query of the same cycle did.
C12_ResetOnMove ==
    [][\A src \in Counted :
          (out'.op = "make_move" /\ out'.status = "ok" /\ out'.source = src) =>
             /\ Counter(game', src) = 0
             /\ \A t \in Counted \ {src} :
                   \/ Counter(game', t) = Counter(game, t)
                   \/ /\ Rank(t) < Rank(src)
                      /\ \E i \in 1..Len(calls') : calls'[i].src = t]_vars

\* third ply of a game: the cloud gave the move, its counter is 0, and the
\* miss ChessDB made in the first cycle is still counted
C12_Witness ==
    /\ Moved /\ out.source = "lichess_cloud"
    /\ Len(game.board.move_stack) = 3
    /\ game.out_of_cloud_counter = 0
    /\ game.out_of_chessdb_counter = 1

\* the last n elements of a sequence, in their order
Recent(seq, n) ==
    IF Len(seq) <= n THEN seq ELSE SubSeq(seq, Len(seq) - n + 1, Len(seq))

DrawCapacity(self) == self.config.engine.offer_draw.consecutive_moves
ResignCapacity(self) == self.config.engine.resign.consecutive_moves

\* C13: the draw window and the resign window never hold more scores than
\* their capacity, and an engine move leaves in each the most recent
\* scores, the new one last and the oldest gone when the window was full.
C13_WindowCapacity ==
    [][/\ Len(game'.draw_scores) <= DrawCapacity(game')
       /\ Len(game'.resign_scores) <= ResignCapacity(game')
       /\ (out'.op = "make_move" /\ out'.status = "ok" /\ out'.source = "engine") =>
             /\ game'.resign_scores # <<>>
             /\ \E score \in {game'.resign_scores[Len(game'.resign_scores)]} :
                   /\ game'.draw_scores
                        = Recent(Append(game.draw_scores, score), DrawCapacity(game))
                   /\ game'.resign_scores
                        = Recent(Append(game.resign_scores, score), ResignCapacity(game))]_vars

\* three engine scores are in the draw window (capacity 3); the resign
\* window (capacity 2) has lost the oldest of them, and a fourth engine move
\* has pushed a score out of the draw window too
C13_Witness ==
    /\ Moved /\ out.source = "engine"
    /\ Len(game.board.move_stack) = 7
    /\ game.draw_scores = <<Cp(-600), Cp(30), Cp(-600)>>
    /\ game.resign_scores = <<Cp(30), Cp(-600)>>

Evaluated == fn.op = "signals" /\ fn.done

\* the draw window holds exactly these centipawn scores
DrawWindowIs(cps) ==
    game.draw_scores = [i \in 1..Len(cps) |-> Cp(cps[i])]

\* C14 as claimed: a draw is offered only if draw offering is enabled, the
\* move number exceeds the minimum game length, the draw window is full and
\* every score in it has absolute value below the threshold.
C14_Claimed ==
    (Evaluated /\ fn.drawish) =>
        /\ game.draw_enabled
        /\ FullmoveNumber(game.board) > game.config.engine.offer_draw.min_game_length
        /\ Len(game.draw_scores) = DrawCapacity(game)
        /\ \A i \in 1..Len(game.draw_scores) :
              Abs(ScoreValue(game.draw_scores[i])) < game.config.engine.offer_draw.score

\* C14: a draw is offered after an engine move exactly when draw offering
\* is enabled, the move number is at least the minimum game length, the
\* draw window is full and every score in it has absolute value at most the
\* threshold; with capacity 3 and threshold 50, [10,-20,30] offers a draw,
\* [10,-20,60] does not, and fewer than 3 scores never do.
C14_DrawOffer ==
    Evaluated =>
        /\ fn.drawish <=>
              /\ game.draw_enabled
              /\ FullmoveNumber(game.board) >= game.config.engine.offer_draw.min_game_length
              /\ Len(game.draw_scores) = DrawCapacity(game)
              /\ \A i \in 1..Len(game.draw_scores) :
                    Abs(ScoreValue(game.draw_scores[i]))
                        <= game.config.engine.offer_draw.score
        /\ (DrawWindowIs(<<10, -20, 30>>) /\ game.draw_enabled
               /\ FullmoveNumber(game.board) >= 4) => fn.drawish
        /\ DrawWindowIs(<<10, -20, 60>>) => ~fn.drawish
        /\ Len(game.draw_scores) < 3 => ~fn.drawish

\* [10,-20,30] in a window of capacity 3, threshold 50, at move 5: offered
C14_Witness ==
    /\ Evaluated /\ fn.drawish
    /\ DrawWindowIs(<<10, -20, 30>>)
    /\ DrawCapacity(game) = 3 /\ game.config.engine.offer_draw.score = 50
    /\ FullmoveNumber(game.board) = 5

\* C15 as claimed: resignation is signalled only if it is enabled, the
\* resign window is full and every score in it is below the threshold; one
\* score at or above the threshold prevents it.
C15_Claimed ==
    (Evaluated /\ fn.resignable) =>
        /\ game.resign_enabled
        /\ Len(game.resign_scores) = ResignCapacity(game)
        /\ \A i \in 1..Len(game.resign_scores) :
              ScoreValue(game.resign_scores[i]) < game.config.engine.resign.score

\* C15: resignation is signalled after an engine move exactly when it is
\* enabled, the resign window is full and every score in it is at or below
\* the threshold; one score above the threshold anywhere in the window
\* prevents it.
C15_Resign ==
    Evaluated =>
        /\ fn.resignable <=>
              /\ game.resign_enabled
              /\ Len(game.resign_scores) = ResignCapacity(game)
              /\ \A i \in 1..Len(game.resign_scores) :
                    ScoreValue(game.resign_scores[i]) <= game.config.engine.resign.score
        /\ (\E i \in 1..Len(game.resign_scores) :
               ScoreValue(game.resign_scores[i]) > game.config.engine.resign.score)
              => ~fn.resignable

\* the last score is below the threshold -500, the one before is above it:
\* no resignation
C15_Witness ==
    /\ Evaluated /\ ~fn.resignable /\ game.resign_enabled
    /\ game.resign_scores = <<Cp(-499), Cp(-501)>>

Constructed == fn.op = "_get_move_overhead" /\ fn.done

\* initial time / 60 x multiplier, in 1/(60 x den) ms
ScaledShare == fn.initial_time * fn.multiplier.num
\* one millisecond in that unit
ScaledMs == 60 * fn.multiplier.den

\* C16 as claimed: the move overhead equals max(initial time / 60 x
\* multiplier, 1000) ms.
C16_Claimed ==
    Constructed =>
        fn.overhead * ScaledMs = Max(ScaledShare, 1000 * ScaledMs)

\* C16: the move overhead is max(initial time / 60 x multiplier, 1000) ms
\* with the product, computed in double precision, cut to whole
\* milliseconds: it is the whole part of the exact product, or one less
\* when the exact product is a whole number (165 s at multiplier 0.7 give
\* 1924 ms, 45 s at 1.35 give 1012 ms); it is never below 1000 ms, it is
\* what the session keeps, and for an initial time of 600 s with
\* multiplier 1.0 it is 10000 ms.
C16_MoveOverhead ==
    Constructed =>
        /\ fn.overhead >= 1000
        /\ game.move_overhead = fn.overhead
        /\ \/ fn.overhead = Max(ScaledShare \div ScaledMs, 1000)
           \/ /\ ScaledShare % ScaledMs = 0
              /\ fn.overhead = Max(ScaledShare \div ScaledMs - 1, 1000)
        /\ (fn.initial_time = 600000 /\ fn.multiplier = [num |-> 1, den |-> 1])
              => fn.overhead = 10000
        /\ (fn.initial_time = 165000 /\ fn.multiplier = [num |-> 7, den |-> 10])
              => fn.overhead = 1924
        /\ (fn.initial_time = 45000 /\ fn.multiplier = [num |-> 27, den |-> 20])
              => fn.overhead = 1012

\* 600 s at multiplier 1.0: 10000 ms
C16_Witness ==
    /\ Constructed
    /\ fn.initial_time = 600000 /\ fn.multiplier = [num |-> 1, den |-> 1]
    /\ fn.overhead = 10000 /\ game.move_overhead = 10000

Updated == out.op = "update"

\* C17 as claimed: update returns true exactly when the event lists more
\* moves than the local history; when it returns false only the status
\* changes; and neither the same event delivered again nor the echo of the
\* bot's own move pushes a move.
C17_Claimed ==
    [][out'.op = "update" =>
        LET event == calls'[1].event
        IN /\ out'.changed = (Len(event.moves) > Len(game.board.move_stack))
           /\ ~out'.changed => game' = [game EXCEPT !.status = event.status]
           /\ (Updated /\ calls' = calls) => game'.board = game.board
           /\ (Moved /\ event.moves = game.board.move_stack)
                 => game'.board = game.board]_vars

NoneMissing == \A i \in 1..Len(fn.probes) : ~fn.probes[i].missing

\* the best class among the probed moves
BestClass ==
    CHOOSE c \in -2..2 :
        /\ \E i \in 1..Len(fn.probes) : ClassOf(fn.op, fn.probes[i]) = c
        /\ \A i \in 1..Len(fn.probes) : ClassOf(fn.op, fn.probes[i]) <= c

\* C18 as claimed: a local tablebase selector raises the draw-offer signal
\* exactly when the best class is 0 and the resign signal exactly when it
\* is -2.
C18_Claimed ==
    (Selected /\ NoneMissing /\ fn.ret # None) =>
        /\ fn.ret.offer_draw = (BestClass = 0)
        /\ fn.ret.resign = (BestClass = -2)

\* C18: with a move returned, the resign signal is raised exactly when the
\* best class is -2; the draw-offer signal is raised exactly when the best
\* class is 0 or, in the Syzygy selector, -1 (blessed loss); for a best
\* class of +2 or +1 neither is raised, and Gaviota returns no move, hence
\* no signal, for a best class of +1 or -1.
C18_TablebaseSignals ==
    (Selected /\ NoneMissing) =>
        /\ fn.ret # None =>
              /\ fn.ret.resign = (BestClass = -2)
              /\ fn.ret.offer_draw
                    = (BestClass = 0 \/ (fn.op = "syzygy" /\ BestClass = -1))
        /\ (fn.op = "gaviota" /\ BestClass \in {1, -1}) => fn.ret = None
        /\ (fn.op = "syzygy" \/ BestClass \in {2, 0, -2}) => fn.ret # None

\* Syzygy: a blessed loss is the best there is, and a draw is offered
C18_Witness ==
    /\ Selected /\ fn.op = "syzygy"
    /\ fn.probes = <<Probed(1, 4, 1), Probed(2, 101, 1)>>
    /\ fn.ret # None /\ fn.ret.move = 2
    /\ fn.ret.offer_draw /\ ~fn.ret.resign

LocalTablebases == {"gaviota", "syzygy"}

\* some probe of the input finds no table
HasMissing(x) == \E i \in 1..Len(x.probes) : x.probes[i].missing

\* C19: a local tablebase source one of whose probes finds no table returns
\* no move, also when the moves before it were classified, and leaves the
\* session (position, clocks, miss counters, score windows) as it was; the
\* cycle goes on to a later source, and the source stays eligible for the
\* next turn.
C19_MissingTable ==
    /\ [](\A src \in LocalTablebases :
            Eligible(src, game) =>
               \A x \in {y \in TablebaseInputs(game) : HasMissing(y)} :
                  \A r \in {Adapter(src, game, x)} :
                     r.ret = None /\ r.self = game)
    /\ [][out'.op = "make_move" =>
            \A i \in 1..Len(calls') :
               (calls'[i].src \in LocalTablebases /\ calls'[i].answer = "missing") =>
                  /\ i < Len(calls')
                  /\ out'.source # calls'[i].src
                  /\ Eligible(calls'[i].src, game) = Eligible(calls'[i].src, game')]_vars

\* Gaviota and Syzygy both found a table missing after a first move was
\* classified, and the online tablebase gave the move
C19_Witness ==
    /\ Moved /\ out.source = "online_egtb"
    /\ \E i, j \in 1..Len(calls) :
          /\ calls[i].src = "gaviota" /\ calls[i].answer = "missing"
          /\ calls[j].src = "syzygy" /\ calls[j].answer = "missing"
    /\ Len(game.board.move_stack) = 4

\* the distance the Syzygy selector is to compare a probed move by
Biased(p) ==
    LET class == Classified(-p.value, p.halfmove_clock)
        bias == IF p.halfmove_clock # 0 THEN 0
                ELSE IF class > 0 THEN -10000
                ELSE IF class < 0 THEN 10000 ELSE 0
    IN -p.value + bias

\* C20: the Syzygy selector compares moves of the best class by the probed
\* distance biased by -10000 (winning classes) or +10000 (losing classes)
\* when the halfmove clock after the move is exactly 0 and unbiased
\* otherwise, and the distance it reports is the unbiased probed distance
\* of the move it returns, also when that move is drawn from a tie set.
C20_SyzygyBias ==
    (Selected /\ fn.op = "syzygy" /\ NoneMissing) =>
        /\ fn.ret # None
        /\ \A i \in 1..Len(fn.probes) :
              fn.probes[i].move = fn.ret.move =>
                 /\ fn.ret.distance = -fn.probes[i].value
                 /\ \A j \in 1..Len(fn.probes) :
                       Classified(-fn.probes[j].value, fn.probes[j].halfmove_clock)
                         = Classified(-fn.probes[i].value, fn.probes[i].halfmove_clock)
                       => Biased(fn.probes[i]) <= Biased(fn.probes[j])

\* three wins in 3, two of them resetting the clock: those two tie, the
\* second of them is drawn, and the distance reported is 3
C20_Witness ==
    /\ Selected /\ fn.op = "syzygy"
    /\ fn.probes = <<Probed(1, -3, 1), Probed(2, -3, 0), Probed(3, -3, 0)>>
    /\ fn.best_moves = <<2, 3>> /\ fn.rnd = 1
    /\ fn.ret # None /\ fn.ret.move = 3 /\ fn.ret.distance = 3

\* the configuration of a remote source
OnlineConfig(self, src) ==
    CASE src = "opening_explorer" -> self.config.engine.online_moves.opening_explorer
      [] src = "lichess_cloud" -> self.config.engine.online_moves.lichess_cloud
      [] src = "chessdb" -> self.config.engine.online_moves.chessdb
      [] src = "online_egtb" -> self.config.engine.online_moves.online_egtb

\* the variant of the game is one the source does not serve
IncompatibleVariant(self, src) ==
    CASE src = "opening_explorer" ->
           self.board.uci_variant # "chess"
             /\ ~self.config.engine.online_moves.opening_explorer.use_for_variants
      [] src = "lichess_cloud" -> FALSE
      [] src = "chessdb" -> self.board.uci_variant # "chess"
      [] src = "online_egtb" ->
           self.board.uci_variant \notin {"chess", "antichess", "atomic"}

\* disabled, ten misses, at or past the depth ceiling, or the wrong variant
ClosedButTime(self, src) ==
    \/ ~OnlineConfig(self, src).enabled
    \/ src \in Counted /\ Counter(self, src) >= 10
    \/ src \in Counted /\ Ply(self.board) >= OnlineConfig(self, src).max_depth
    \/ IncompatibleVariant(self, src)

\* the number of pieces rules the source out: ChessDB serves more than 7
\* pieces, the online tablebase at most 7 (6 in a variant)
WrongPieceCount(self, src) ==
    CASE src = "chessdb" -> self.board.pieces <= 7
      [] src = "online_egtb" ->
           self.board.pieces > (IF self.board.uci_variant = "chess" THEN 7 ELSE 6)
      [] OTHER -> FALSE

\* a remote adapter has just been run on its own
Ran == fn.op = "adapter" /\ fn.done

\* the adapter returned no move, asked nothing and changed nothing
Skipped == fn'.ret = None /\ fn'.raised = "none" /\ calls' = <<>> /\ game' = game

\* C21 as claimed: a remote source that is not enabled, has 10 misses, is at
\* or past its depth ceiling, does not serve the variant, or whose side has
\* not more than the configured minimum on its clock returns no move, asks
\* nothing and changes nothing.
C21_Claimed ==
    [][(fn'.op = "adapter" /\ fn'.done /\ ~fn.done) =>
         ((\/ ClosedButTime(game, fn'.src)
           \/ ~(OwnTime(game) > OnlineConfig(game, fn'.src).min_time * 1000))
             => Skipped)]_vars

\* C21: a remote source that is not enabled, has 10 misses, is at or past
\* its depth ceiling, does not serve the variant or the number of pieces,
\* or, once two plies have been played, whose side has less than the
\* configured minimum on its clock returns no move, asks nothing and leaves
\* the session (miss counters, clocks, position) as it was; in every other
\* case, a clock exactly at the minimum and a short clock in the first two
\* plies among them, it issues its query.
C21_IneligibleSkip ==
    [][(fn'.op = "adapter" /\ fn'.done /\ ~fn.done) =>
         IF \/ ClosedButTime(game, fn'.src)
            \/ WrongPieceCount(game, fn'.src)
            \/ /\ Len(game.board.move_stack) >= 2
               /\ OwnTime(game) < OnlineConfig(game, fn'.src).min_time * 1000
         THEN Skipped
         ELSE calls' # <<>> /\ calls'[1].src = fn'.src]_vars

\* third ply, 500 ms left where the cloud wants 1000: nothing asked, the
\* four misses still counted
C21_Witness ==
    /\ Ran /\ fn.src = "lichess_cloud" /\ fn.ret = None /\ calls = <<>>
    /\ game.config.engine.online_moves.lichess_cloud.enabled
    /\ game.config.engine.online_moves.lichess_cloud.max_depth = Infinity
    /\ Len(game.board.move_stack) = 2 /\ OwnTime(game) = 500
    /\ game.out_of_cloud_counter = 4

CountedRemote == {"opening_explorer", "lichess_cloud", "chessdb"}

\* after a make_move step, every counted remote source whose query got one
\* of these answers has the miss counter it had before
CounterKeptFor(answers) ==
    out'.op = "make_move" =>
        \A i \in 1..Len(calls') :
           (calls'[i].src \in CountedRemote /\ calls'[i].answer \in answers)
               => Counter(game', calls'[i].src) = Counter(game, calls'[i].src)

\* at the turn that follows a cycle, every counted remote source whose
\* query got one of these answers in that cycle is eligible
EligibleAfter(answers) ==
    (Cycle /\ out'.op = "update" /\ out'.changed) =>
        \A i \in 1..Len(calls) :
           (calls[i].src \in CountedRemote /\ calls[i].answer \in answers)
               => /\ Counter(game', calls[i].src) < 10
                  /\ Eligible(calls[i].src, game')

\* C22 as claimed: a remote query that times out or fails leaves the miss
\* counter of its source as it was, and the source is eligible at the next
\* turn.
C22_Claimed ==
    [][CounterKeptFor({"none", "error"}) /\ EligibleAfter({"none", "error"})]_vars

\* C22: a remote query that gets no response leaves the miss counter of its
\* source as it was, so that no number of timeouts disables the source: it
\* is eligible again at the next turn.  An error answer is counted as a
\* miss: it adds one to the counter.
C22_TimeoutNoMiss ==
    [][/\ CounterKeptFor({"none"})
       /\ EligibleAfter({"none"})
       /\ out'.op = "make_move" =>
             \A i \in 1..Len(calls') :
                (calls'[i].src \in CountedRemote /\ calls'[i].answer = "error")
                   => Counter(game', calls'[i].src)
                         = Counter(game, calls'[i].src) + 1]_vars

\* the explorer has missed nine times; in the cycle of the last ply of the
\* long game it got no response, and its counter is still nine
C22_Witness ==
    /\ Cycle /\ Len(game.board.move_stack) = MaxGame
    /\ \E i \in 1..Len(calls) :
          calls[i].src = "opening_explorer" /\ calls[i].answer = "none"
    /\ game.out_of_opening_explorer_counter = 9

\* the limit of the engine search of the cycle a make_move step ran
SearchLimit == calls'[Len(calls')].limit

\* the clock of the bot in a search limit, in half milliseconds
OwnClock(limit, self) ==
    IF self.is_white THEN limit.white_clock ELSE limit.black_clock
OppClock(limit, self) ==
    IF self.is_white THEN limit.black_clock ELSE limit.white_clock

\* C23 as claimed: an engine search with fewer than two plies played gets a
\* fixed budget and no clock; from the third ply on the bot's allotted time
\* is its remaining clock, as the timeouts of the cycle left it, minus the
\* move overhead if that is positive and half the remaining clock
\* otherwise, so that it is positive and smaller than the remaining clock;
\* the opponent's clock is passed unchanged.
C23_Claimed ==
    [][(out'.op = "make_move" /\ calls'[Len(calls')].src = "engine") =>
         IF Len(game.board.move_stack) < 2
         THEN SearchLimit.kind = "time" /\ SearchLimit.time = 15
         ELSE /\ SearchLimit.kind = "clock"
              /\ OwnClock(SearchLimit, game)
                    = IF OwnTime(game') - game.move_overhead > 0
                      THEN 2 * (OwnTime(game') - game.move_overhead)
                      ELSE OwnTime(game')
              /\ OwnClock(SearchLimit, game) > 0
              /\ OwnClock(SearchLimit, game) < 2 * OwnTime(game')
              /\ OppClock(SearchLimit, game) = 2 * OppTime(game)]_vars

\* a make_move step returned a move
MovedNow == out'.op = "make_move" /\ out'.status = "ok"

\* the step started a ponder search on the position it left
PonderStarted ==
    \E i \in 1..Len(out'.analysis) :
        out'.analysis[i] = Analysis("ponder", game'.board)

\* the searches of the step other than that one
OtherSearches ==
    SelectSeq(out'.analysis, LAMBDA a : a # Analysis("ponder", game'.board))

\* C24 as claimed: a cycle whose move comes from a non-engine source starts
\* a ponder search on the position after the move; a cycle whose move comes
\* from the engine starts none.
C24_Claimed ==
    [][MovedNow => (PonderStarted <=> out'.source # "engine")]_vars

\* C24: a make_move cycle starts a ponder search on the position after its
\* move exactly when pondering is enabled at that moment and the move does
\* not come from an engine search made with two or more moves on the move
\* stack: the book, the remote sources and the engine in the first two
\* plies on the stack start one while the flag is set; Gaviota and Syzygy
\* clear the flag first, after a 1 ms search on the position before the
\* move, and start none; an engine move from the third ply on starts none.
C24_PonderStart ==
    [][MovedNow =>
         /\ PonderStarted <=>
               /\ game.ponder_enabled
               /\ out'.source \notin LocalTablebases
               /\ ~(out'.source = "engine" /\ Len(game.board.move_stack) > 1)
         /\ OtherSearches =
               IF game.ponder_enabled /\ out'.source \in LocalTablebases
               THEN <<Analysis("limit", game.board)>> ELSE <<>>]_vars

\* the engine gave the second ply of the game, and a ponder search was
\* started on the position after it
C24_Witness ==
    /\ Moved /\ out.source = "engine"
    /\ Len(game.board.move_stack) = 2
    /\ out.analysis = <<Analysis("ponder", game.board)>>

\* C25: the pondering-enabled flag never changes from false to true,
\* whatever method is called; a move from Gaviota or Syzygy leaves it
\* false; a make_move cycle entered with the flag false starts no search
\* and does not ask the engine to ponder in its play call; and neither
\* start_pondering nor stop_pondering, called with the flag false, starts
\* a search.
C25_PonderOffForGood ==
    [][/\ ~game.ponder_enabled => ~game'.ponder_enabled
       /\ (MovedNow /\ out'.source \in LocalTablebases) => ~game'.ponder_enabled
       /\ (out'.op = "make_move" /\ ~game.ponder_enabled) =>
             /\ out'.analysis = <<>>
             /\ \A i \in 1..Len(calls') :
                   calls'[i].src = "engine" => ~calls'[i].limit.ponder
       /\ (out'.op \in {"start_pondering", "stop_pondering"}
              /\ ~game.ponder_enabled) => out'.analysis = <<>>]_vars

\* a game of standard chess was built with pondering on, pondering has
\* been switched off, and the engine, asked for the fourth ply with the
\* clocks, is not asked to ponder
C25_Witness ==
    /\ Moved /\ out.source = "engine" /\ Len(game.board.move_stack) = 4
    /\ game.board.uci_variant = "chess"
    /\ game.config.engine.ponder /\ ~game.ponder_enabled
    /\ calls[Len(calls)].limit.kind = "clock"
    /\ ~calls[Len(calls)].limit.ponder
    /\ out.analysis = <<>>

\* C26 as claimed: after an update call that returns true the local move
\* history has as many moves as the move list of the event and ends with
\* the same move, whatever calls of make_move and update came before.
C26_Claimed ==
    [][(out'.op = "update" /\ out'.changed) =>
         LET moves == calls'[1].event.moves
             local == game'.board.move_stack
         IN /\ Len(local) = Len(moves)
            /\ local[Len(local)] = moves[Len(moves)]]_vars

\* the session with both score windows emptied
Emptied(self) == [self EXCEPT !.draw_scores = <<>>, !.resign_scores = <<>>]

\* the score an engine move has just appended
LastScore == game'.resign_scores[Len(game'.resign_scores)]

\* the session as the evaluator of lines 83-84 sees it: the windows of the
\* step, the position before the push
AtDecision == [game' EXCEPT !.board = game.board]

\* C27: the draw and the resign window change only in a make_move cycle
\* whose move comes from the engine: there one and the same score is
\* appended to both, and the flags are evaluated on the windows so
\* extended.  Every other cycle and every update leaves both windows as
\* they were; a cycle resolved by the book or a counted remote source
\* signals nothing, one resolved by a tablebase source gets from it the
\* same move and flags whatever the windows hold, and update returns no
\* flag.
C27_WindowsEngineOnly ==
    [][/\ ~(MovedNow /\ out'.source = "engine") =>
             /\ game'.draw_scores = game.draw_scores
             /\ game'.resign_scores = game.resign_scores
       /\ (MovedNow /\ out'.source = "engine") =>
             /\ game'.resign_scores # <<>>
             /\ game'.draw_scores
                   = DequeAppend(game.draw_scores, LastScore, DrawCapacity(game))
             /\ game'.resign_scores
                   = DequeAppend(game.resign_scores, LastScore, ResignCapacity(game))
             /\ out'.signal.offer_draw = _is_drawish(AtDecision)
             /\ out'.signal.resign = _is_resignable(AtDecision)
       /\ (MovedNow /\ out'.source \in Guarded) =>
             ~out'.signal.offer_draw /\ ~out'.signal.resign
       /\ (MovedNow /\ out'.source \in NonEngine \ Guarded) =>
             \A x \in LongInputsOf(out'.source, game) :
                Adapter(out'.source, Emptied(game), x).ret
                   = Adapter(out'.source, game, x).ret
       /\ out'.op = "update" => ~out'.offer_draw /\ ~out'.resign]_vars

\* the engine gave the first and the third ply of the side with scores
\* that make a draw offer due; the online tablebase gives the fifth: the
\* windows are as the engine left them and no draw is offered
C27_Witness ==
    /\ Moved /\ out.source = "online_egtb"
    /\ Len(game.board.move_stack) = 5
    /\ game.draw_scores = <<Cp(30), Cp(30)>>
    /\ game.resign_scores = <<Cp(30), Cp(30)>>
    /\ _is_drawish(game) /\ ~out.offer_draw /\ ~out.resign

\* the best class among the probed moves of an input, as the specification
\* states the classes
BestClassOf(tablebase, x) ==
    CHOOSE c \in -2..2 :
        /\ \E i \in 1..Len(x.probes) : ClassOf(tablebase, x.probes[i]) = c
        /\ \A i \in 1..Len(x.probes) : ClassOf(tablebase, x.probes[i]) <= c

\* C28: the Gaviota selector, eligible and with no table missing, returns
\* a move exactly when the best class over the legal moves is +2, 0 or -2;
\* with a best class of +1 or -1 it returns no move and leaves the session
\* as it was, whatever the tablebase says of the legal moves.  A cycle in
\* which Gaviota is asked and does not give the move asks Syzygy next, if
\* Syzygy is eligible.
C28_GaviotaDeclines ==
    /\ [](GaviotaEligible(game) =>
             \A x \in {y \in TablebaseInputs(game) : ~HasMissing(y)} :
                \A r \in {_make_gaviota_move(game, x)},
                   class \in {BestClassOf("gaviota", x)} :
                   /\ (r.ret # None) = (class \in {2, 0, -2})
                   /\ class \in {1, -1} => r.ret = None /\ r.self = game)
    /\ [][out'.op = "make_move" =>
             \A i \in 1..Len(calls') :
                (calls'[i].src = "gaviota" /\ out'.source # "gaviota") =>
                   /\ i < Len(calls')
                   /\ SyzygyEligible(game) => calls'[i + 1].src = "syzygy"]_vars

\* Gaviota found every table and gave no move; Syzygy, asked next, played
\* into a blessed loss and signalled the draw offer
C28_Witness ==
    /\ Moved /\ out.source = "syzygy"
    /\ calls = <<Call("gaviota", "data"), Call("syzygy", "data")>>
    /\ out.signal.offer_draw

\* the response passes the acceptance threshold of the source
Acceptable(self, src, response) ==
    /\ response.kind = "data"
    /\ CASE src = "opening_explorer" ->
              LET c == self.config.engine.online_moves.opening_explorer
              IN /\ response.white + response.draws + response.black >= c.min_games
                 /\ response.moves # <<>>
                 /\ ~c.only_with_wins
                      \/ _get_opening_explorer_top_move(self, response.moves).wins > 0
         [] src = "lichess_cloud" ->
              response.depth >= self.config.engine.online_moves.lichess_cloud.min_eval_depth
         [] src = "chessdb" ->
              (~response.has_depth)
                 \/ response.depth >= self.config.engine.online_moves.chessdb.min_eval_depth

\* the move the source proposes
Proposed(self, src, response) ==
    IF src = "opening_explorer"
    THEN _get_opening_explorer_top_move(self, response.moves).uci
    ELSE response.move

\* the session with the miss counter of a source set
WithCounter(self, src, n) ==
    CASE src = "opening_explorer" -> [self EXCEPT !.out_of_opening_explorer_counter = n]
      [] src = "lichess_cloud" -> [self EXCEPT !.out_of_cloud_counter = n]
      [] src = "chessdb" -> [self EXCEPT !.out_of_chessdb_counter = n]

\* C29: when the opening explorer, the cloud or ChessDB is queried and its
\* response passes the acceptance threshold but proposes a move that
\* repeats a position, the adapter returns no move and the miss counter of
\* the source is exactly 1 afterwards, whatever it was before; nothing else
\* of the session changes.
C29_RejectedCountsOne ==
    [][(/\ fn'.op = "adapter" /\ fn'.done /\ ~fn.done
        /\ fn'.src \in CountedRemote /\ calls' # <<>>
        /\ Acceptable(game, fn'.src, fn'.response)
        /\ IsRepetition(Push(game.board, Proposed(game, fn'.src, fn'.response)), 2))
         => /\ fn'.ret = None /\ fn'.raised = "none"
            /\ Counter(game', fn'.src) = 1
            /\ game' = WithCounter(game, fn'.src, 1)]_vars

\* third ply, nine misses on every counter: the cloud's evaluation is deep
\* enough, its move repeats a position; no move, and the cloud's counter is
\* 1 while ChessDB's is still 9
C29_Witness ==
    /\ Ran /\ fn.src = "lichess_cloud"
    /\ fn.response = CloudResponse(25, 1, Cp(30))
    /\ game.board.move_stack = <<1, 1>>
    /\ calls = <<Call("lichess_cloud", "data")>>
    /\ fn.ret = None
    /\ game.out_of_cloud_counter = 1 /\ game.out_of_chessdb_counter = 9

=============================================================================
